---- MODULE Spec2Model ----
(***************************************************************************)
(* NicLink (nicvagn/pyLink): the manager of the electronic chessboard      *)
(* (niclink/driver.py), the lichess game session and its orchestrator      *)
(* (lichess/__main__.py).                                                  *)
(*                                                                         *)
(* Strings that the code slices or compares (UCI moves, board FENs) are    *)
(* sequences of one-character strings.  Squares are numbered as in         *)
(* python-chess: a1 = 0, b1 = 1, ..., h8 = 63.                             *)
(***************************************************************************)
EXTENDS Integers, Sequences, FiniteSets, TLC

\* ------------------------------------------------------------------------
\* Bounds of the model
\* ------------------------------------------------------------------------
\* the gameState events a Game reads from its stream, at most
MaxEvents == 2

\* ------------------------------------------------------------------------
\* The rules engine (python-chess), as used by the manager and the session
\* ------------------------------------------------------------------------
\* the draws chess.Board.outcome declares by itself: 150 plies without a
\* capture or a pawn move, five occurrences of a position
SeventyFiveMoves == 150
Fivefold == 5
Squares == 0..63
Empty == "."
WhitePieces == {"P", "N", "B", "R", "Q", "K"}
BlackPieces == {"p", "n", "b", "r", "q", "k"}
WHITE == TRUE
BLACK == FALSE
\* Python's None (and the empty string), where a string is expected
None == <<>>

FileOf(s) == s % 8
RankOf(s) == s \div 8
Sq(f, r) == r * 8 + f
OnBoard(f, r) == f >= 0 /\ f <= 7 /\ r >= 0 /\ r <= 7

\* FILES of driver.py
FILES == <<"a", "b", "c", "d", "e", "f", "g", "h">>
DIGITS == <<"1", "2", "3", "4", "5", "6", "7", "8">>

\* chess.square_name
SquareName(s) == <<FILES[FileOf(s) + 1], DIGITS[RankOf(s) + 1]>>

IsWhite(p) == p \in WhitePieces
IsBlack(p) == p \in BlackPieces
ColorIs(p, white) == IF white THEN IsWhite(p) ELSE IsBlack(p)
PieceOf(kind, white) ==
    IF white THEN kind
    ELSE CASE kind = "P" -> "p" [] kind = "N" -> "n" [] kind = "B" -> "b"
           [] kind = "R" -> "r" [] kind = "Q" -> "q" [] kind = "K" -> "k"
KindOf(p) ==
    CASE p \in {"P", "p"} -> "P" [] p \in {"N", "n"} -> "N"
      [] p \in {"B", "b"} -> "B" [] p \in {"R", "r"} -> "R"
      [] p \in {"Q", "q"} -> "Q" [] p \in {"K", "k"} -> "K"
      [] OTHER -> Empty
PromoKind(c) ==
    CASE c = "q" -> "Q" [] c = "r" -> "R" [] c = "b" -> "B" [] c = "n" -> "N"

\* the eight directions: 1..4 orthogonal, 5..8 diagonal
Dirs == << <<1, 0>>, <<-1, 0>>, <<0, 1>>, <<0, -1>>,
           <<1, 1>>, <<1, -1>>, <<-1, 1>>, <<-1, -1>> >>
KnightJumps == { <<1, 2>>, <<2, 1>>, <<2, -1>>, <<1, -2>>,
                 <<-1, -2>>, <<-2, -1>>, <<-2, 1>>, <<-1, 2>> }

RayLen(s, d) ==
    CHOOSE n \in 0..7 :
        /\ \A k \in 1..n : OnBoard(FileOf(s) + k * Dirs[d][1], RankOf(s) + k * Dirs[d][2])
        /\ ~OnBoard(FileOf(s) + (n + 1) * Dirs[d][1], RankOf(s) + (n + 1) * Dirs[d][2])
\* RayTable[s][d]: the squares from s outwards in direction d
RayTable ==
    [s \in Squares |->
        [d \in 1..8 |->
            [k \in 1..RayLen(s, d) |->
                Sq(FileOf(s) + k * Dirs[d][1], RankOf(s) + k * Dirs[d][2])]]]
KnightTable ==
    [s \in Squares |->
        {Sq(FileOf(s) + j[1], RankOf(s) + j[2]) :
            j \in {i \in KnightJumps : OnBoard(FileOf(s) + i[1], RankOf(s) + i[2])}}]
KingTable ==
    [s \in Squares |-> {RayTable[s][d][1] : d \in {e \in 1..8 : RayLen(s, e) > 0}}]

\* how far a slider on s sees along direction d: up to and including the
\* first occupied square
RECURSIVE Reach(_, _, _)
Reach(pl, r, i) ==
    IF i > Len(r) THEN Len(r)
    ELSE IF pl[r[i]] # Empty THEN i
    ELSE Reach(pl, r, i + 1)
Seen(pl, s, d) ==
    LET r == RayTable[s][d]
    IN  {r[i] : i \in 1..Reach(pl, r, 1)}
\* the piece a slider on s would hit along direction d (Empty: none)
Hit(pl, s, d) ==
    LET r == RayTable[s][d]
        n == Reach(pl, r, 1)
    IN  IF n = 0 THEN Empty ELSE pl[r[n]]

\* chess.Board.is_attacked_by
IsAttacked(pl, t, byWhite) ==
    \/ \E s \in KnightTable[t] : pl[s] = PieceOf("N", byWhite)
    \/ \E s \in KingTable[t] : pl[s] = PieceOf("K", byWhite)
    \/ \E df \in {-1, 1} :
          LET f == FileOf(t) + df
              r == IF byWhite THEN RankOf(t) - 1 ELSE RankOf(t) + 1
          IN  OnBoard(f, r) /\ pl[Sq(f, r)] = PieceOf("P", byWhite)
    \/ \E d \in 1..4 : Hit(pl, t, d) \in {PieceOf("R", byWhite), PieceOf("Q", byWhite)}
    \/ \E d \in 5..8 : Hit(pl, t, d) \in {PieceOf("B", byWhite), PieceOf("Q", byWhite)}

\* chess.Board.is_check, for the side `white`
InCheck(pl, white) ==
    \E k \in Squares : pl[k] = PieceOf("K", white) /\ IsAttacked(pl, k, ~white)

Mv(f, t, p) == [from |-> f, to |-> t, promo |-> p]

PawnMoves(pl, s, white) ==
    LET dr == IF white THEN 1 ELSE -1
        f == FileOf(s)
        r == RankOf(s)
        home == IF white THEN 1 ELSE 6
        last == IF white THEN 7 ELSE 0
        one == IF OnBoard(f, r + dr) /\ pl[Sq(f, r + dr)] = Empty
               THEN {Sq(f, r + dr)} ELSE {}
        two == IF r = home /\ one # {} /\ pl[Sq(f, r + 2 * dr)] = Empty
               THEN {Sq(f, r + 2 * dr)} ELSE {}
        caps == {Sq(f + df, r + dr) :
                    df \in {x \in {-1, 1} :
                               /\ OnBoard(f + x, r + dr)
                               /\ ColorIs(pl[Sq(f + x, r + dr)], ~white)}}
        tos == one \cup two \cup caps
    IN  {Mv(s, t, "") : t \in {u \in tos : RankOf(u) # last}}
        \cup {Mv(s, t, p) : t \in {u \in tos : RankOf(u) = last},
                            p \in {"q", "r", "b", "n"}}

PieceMoves(pl, s, white) ==
    LET k == KindOf(pl[s])
        free(T) == {Mv(s, t, "") : t \in {u \in T : ~ColorIs(pl[u], white)}}
    IN  CASE k = "P" -> PawnMoves(pl, s, white)
          [] k = "N" -> free(KnightTable[s])
          [] k = "K" -> free(KingTable[s])
          [] k = "R" -> free(UNION {Seen(pl, s, d) : d \in 1..4})
          [] k = "B" -> free(UNION {Seen(pl, s, d) : d \in 5..8})
          [] k = "Q" -> free(UNION {Seen(pl, s, d) : d \in 1..8})

\* the placement after a move (chess.Board.push, the piece map only)
Moved(pl, m) ==
    [pl EXCEPT ![m.from] = Empty,
               ![m.to] = IF m.promo = "" THEN pl[m.from]
                         ELSE PieceOf(PromoKind(m.promo), IsWhite(pl[m.from]))]

\* chess.Board.push: a board is its placement, the side to move and the
\* move stack (each entry keeps the piece that moved and the piece it
\* captured, for pop)
Push(b, m) ==
    [pl |-> Moved(b.pl, m),
     turn |-> ~b.turn,
     stack |-> Append(b.stack, [from |-> m.from, to |-> m.to, promo |-> m.promo,
                                piece |-> b.pl[m.from], captured |-> b.pl[m.to]])]

\* chess.Board.pop (the caller handles IndexError on an empty stack)
Pop(b) ==
    LET e == b.stack[Len(b.stack)]
    IN  [pl |-> [b.pl EXCEPT ![e.to] = e.captured, ![e.from] = e.piece],
         turn |-> ~b.turn,
         stack |-> SubSeq(b.stack, 1, Len(b.stack) - 1)]

\* chess.Board.legal_moves (positions of the model offer neither castling
\* nor en passant)
LegalMoves(b) ==
    {m \in UNION {PieceMoves(b.pl, s, b.turn) :
                     s \in {q \in Squares : ColorIs(b.pl[q], b.turn)}} :
        ~InCheck(Moved(b.pl, m), b.turn)}

\* chess.Move.uci
Uci(m) == SquareName(m.from) \o SquareName(m.to)
          \o (IF m.promo = "" THEN <<>> ELSE <<m.promo>>)

\* chess.Board.board_fen: ranks 8..1, files a..h, runs of empty squares as
\* one digit, "/" between ranks
RECURSIVE RankFen(_, _, _, _)
RankFen(pl, r, f, run) ==
    IF f > 7 THEN (IF run > 0 THEN <<DIGITS[run]>> ELSE <<>>)
    ELSE IF pl[Sq(f, r)] = Empty THEN RankFen(pl, r, f + 1, run + 1)
    ELSE (IF run > 0 THEN <<DIGITS[run]>> ELSE <<>>) \o <<pl[Sq(f, r)]>>
         \o RankFen(pl, r, f + 1, 0)
RECURSIVE FenFrom(_, _)
FenFrom(pl, r) ==
    IF r = 0 THEN RankFen(pl, 0, 0, 0)
    ELSE RankFen(pl, r, 0, 0) \o <<"/">> \o FenFrom(pl, r - 1)
BoardFen(pl) == FenFrom(pl, 7)

\* chess.Board(): the standard starting position
BackRank == <<"R", "N", "B", "Q", "K", "B", "N", "R">>
StartPl ==
    [s \in Squares |->
        CASE RankOf(s) = 0 -> BackRank[FileOf(s) + 1]
          [] RankOf(s) = 1 -> "P"
          [] RankOf(s) = 6 -> "p"
          [] RankOf(s) = 7 -> PieceOf(BackRank[FileOf(s) + 1], BLACK)
          [] OTHER -> Empty]
NewBoard == [pl |-> StartPl, turn |-> WHITE, stack |-> <<>>]

\* chess.Board.set_board_fen / chess.Board(fen): the placement a board FEN
\* describes
DigitVal(c) == CHOOSE i \in 1..8 : DIGITS[i] = c
IsDigit(c) == \E i \in 1..8 : DIGITS[i] = c
RECURSIVE ExpandFen(_)
ExpandFen(fen) ==
    IF fen = <<>> THEN <<>>
    ELSE LET c == Head(fen)
         IN  (IF c = "/" THEN <<>>
              ELSE IF IsDigit(c) THEN [i \in 1..DigitVal(c) |-> Empty]
              ELSE <<c>>) \o ExpandFen(Tail(fen))
ParseBoardFen(fen) ==
    LET cells == ExpandFen(fen)
    IN  [s \in Squares |-> cells[(7 - RankOf(s)) * 8 + FileOf(s) + 1]]

\* chess.parse_square and chess.Move.from_uci
ParseSquare(name) ==
    Sq((CHOOSE i \in 1..8 : FILES[i] = name[1]) - 1, DigitVal(name[2]) - 1)
FromUci(u) ==
    Mv(ParseSquare(SubSeq(u, 1, 2)), ParseSquare(SubSeq(u, 3, 4)),
       IF Len(u) > 4 THEN u[5] ELSE "")
\* chess.Board.push_uci over a list of moves, replayed half by half. The
\* replay stops at a move that moves no piece of the side to move (the
\* lists of the model are legal games: none stops)
RECURSIVE PushAll(_, _)
PushAll(b, moves) ==
    LET n == Len(moves)
        half == PushAll(b, SubSeq(moves, 1, n \div 2))
    IN  IF n = 0 THEN b
        ELSE IF n = 1
        THEN IF ColorIs(b.pl[FromUci(moves[1]).from], b.turn)
             THEN Push(b, FromUci(moves[1]))
             ELSE b
        ELSE IF Len(half.stack) < Len(b.stack) + n \div 2 THEN half
        ELSE PushAll(half, SubSeq(moves, n \div 2 + 1, n))

\* chess.Board.has_insufficient_material, for the side `white`
HasInsufficientMaterial(pl, white) ==
    LET mine == {s \in Squares : ColorIs(pl[s], white)}
        theirs == {s \in Squares : ColorIs(pl[s], ~white)}
        bishops == {s \in Squares : KindOf(pl[s]) = "B"}
    IN  IF \E s \in mine : KindOf(pl[s]) \in {"P", "R", "Q"} THEN FALSE
        ELSE IF \E s \in mine : KindOf(pl[s]) = "N"
        THEN /\ Cardinality(mine) <= 2
             /\ \A s \in theirs : KindOf(pl[s]) \in {"K", "Q"}
        ELSE IF \E s \in mine : KindOf(pl[s]) = "B"
        THEN /\ \A s, t \in bishops :
                   (FileOf(s) + RankOf(s)) % 2 = (FileOf(t) + RankOf(t)) % 2
             /\ \A s \in Squares : KindOf(pl[s]) \notin {"P", "N"}
        ELSE TRUE
\* chess.Board.is_insufficient_material
IsInsufficientMaterial(pl) ==
    HasInsufficientMaterial(pl, WHITE) /\ HasInsufficientMaterial(pl, BLACK)

\* chess.Board.is_irreversible, of an entry of the move stack: a capture or
\* a pawn move (the games of the model do not castle)
IsIrreversible(e) == e.captured # Empty \/ KindOf(e.piece) = "P"
LastIsIrreversible(b) == IsIrreversible(b.stack[Len(b.stack)])
\* chess.Board.halfmove_clock: the plies since the last capture or pawn move
HalfmoveClock(b) ==
    LET n == Len(b.stack)
    IN  IF \E i \in 1..n : IsIrreversible(b.stack[i])
        THEN n - (CHOOSE i \in 1..n :
                     /\ IsIrreversible(b.stack[i])
                     /\ \A j \in (i + 1)..n : ~IsIrreversible(b.stack[j]))
        ELSE n
\* chess.Board.is_repetition: how often the position `pl` with `turn` to
\* move has stood on the board, from b back to the last irreversible move
RECURSIVE Occurrences(_, _, _)
Occurrences(b, pl, turn) ==
    (IF b.pl = pl /\ b.turn = turn THEN 1 ELSE 0)
    + (IF b.stack = <<>> \/ LastIsIrreversible(b) THEN 0
       ELSE Occurrences(Pop(b), pl, turn))

\* chess.Board.outcome (claim_draw is False): checkmate, insufficient
\* material, stalemate, the seventy-five-move rule, fivefold repetition
NoOutcome == [over |-> FALSE, termination |-> "none", winner |-> "none"]
Draw(t) == [over |-> TRUE, termination |-> t, winner |-> "none"]
Outcome(b) ==
    LET stuck == LegalMoves(b) = {}
    IN  IF stuck /\ InCheck(b.pl, b.turn)
        THEN [over |-> TRUE, termination |-> "checkmate",
              winner |-> IF b.turn THEN "black" ELSE "white"]
        ELSE IF IsInsufficientMaterial(b.pl) THEN Draw("insufficient_material")
        ELSE IF stuck THEN Draw("stalemate")
        ELSE IF HalfmoveClock(b) >= SeventyFiveMoves THEN Draw("seventyfive_moves")
        ELSE IF Occurrences(b, b.pl, b.turn) >= Fivefold THEN Draw("fivefold_repetition")
        ELSE NoOutcome

\* ------------------------------------------------------------------------
\* Helper functions of driver.py
\* ------------------------------------------------------------------------
ZerosStr == <<"0", "0", "0", "0", "0", "0", "0", "0">>
ZEROS == [r \in 1..8 |-> ZerosStr]
\* a numpy array of dtype <U8 keeps the first 8 characters of what is stored
U8(str) == SubSeq(str, 1, IF Len(str) < 8 THEN Len(str) ELSE 8)

FileNum(letter) ==
    IF \E i \in 1..8 : FILES[i] = letter
    THEN (CHOOSE i \in 1..8 : FILES[i] = letter) - 1
    ELSE 8
square_cords(square) ==
    [found |-> FileNum(square[1]) < 8,
     file |-> FileNum(square[1]),
     rank |-> DigitVal(square[2]) - 1]

\* zeros[:x] + "1" + zeros[x:]
OneAt(x) == SubSeq(ZerosStr, 1, x) \o <<"1">> \o SubSeq(ZerosStr, x + 1, 8)

\* build_led_map_for_move without its same-rank path: each square is
\* written as a row of its own
build_led_map_row_by_row(move) ==
    LET s1 == square_cords(SubSeq(move, 1, 2))
        s2 == square_cords(SubSeq(move, 3, Len(move)))
    IN  [[ZEROS EXCEPT ![s1.rank + 1] = U8(OneAt(s1.file))]
                 EXCEPT ![s2.rank + 1] = U8(OneAt(s2.file))]

build_led_map_for_move(move) ==
    LET s1 == square_cords(SubSeq(move, 1, 2))
        s2 == square_cords(SubSeq(move, 3, Len(move)))
    IN  IF s1.rank # s2.rank
        THEN [[ZEROS EXCEPT ![s1.rank + 1] = U8(OneAt(s1.file))]
                     EXCEPT ![s2.rank + 1] = U8(OneAt(s2.file))]
        ELSE [ZEROS EXCEPT ![s1.rank + 1] =
                 [[ZerosStr EXCEPT ![s1.file + 1] = "1"] EXCEPT ![s2.file + 1] = "1"]]

\* the LED state: what the last LED command left on the board
LedMap(m) == [cmd |-> "map", map |-> m]
LedsOff == [cmd |-> "off", map |-> ZEROS]
LedsGameOver == [cmd |-> "gameover", map |-> ZEROS]

\* what a call that may raise leaves: the exception, or "" for none, and
\* the LED state
LedCall(exc, l) == [exc |-> exc, leds |-> l]
\* nl_interface.set_led: one LED is switched, the others stay
OneLed(l, file, rank, status) ==
    [cmd |-> "led",
     map |-> [l.map EXCEPT ![rank + 1][file + 1] = IF status THEN "1" ELSE "0"]]
\* set_led with the write moved before `if not found`
set_led_writes_first(square, status, l) ==
    LET c == square_cords(square)
    IN  IF c.found THEN LedCall("", OneLed(l, c.file, c.rank, status))
        ELSE LedCall("ValueError", OneLed(l, 7, c.rank, status))
\* set_led(square, status): the file is looked up as in square_cords
set_led(square, status, l) ==
    LET c == square_cords(square)
    IN  IF c.found THEN LedCall("", OneLed(l, c.file, c.rank, status))
        ELSE LedCall("ValueError", l)
\* set_move_leds(move): square_cords raises for either square before
\* set_all_leds is reached
set_move_leds(move, l) ==
    IF /\ square_cords(SubSeq(move, 1, 2)).found
       /\ square_cords(SubSeq(move, 3, Len(move))).found
    THEN LedCall("", LedMap(build_led_map_for_move(move)))
    ELSE LedCall("ValueError", l)

\* `square in self.last_move`: a substring test
IsSubstring(sub, str) ==
    \E i \in 1..Len(str) :
        i + Len(sub) - 1 <= Len(str) /\ SubSeq(str, i, i + Len(sub) - 1) = sub
square_in_last_move(lm, square) ==
    IF lm # None THEN IsSubstring(square, lm) ELSE FALSE

\* show_board_diff: the squares visited are a..g of ranks 1..8, in the
\* order of the loops; a later square of a rank overwrites the row
DiffFiles(pl1, pl2, n) == {f \in 0..6 : pl1[Sq(f, n)] # pl2[Sq(f, n)]}
Max(S) == CHOOSE x \in S : \A y \in S : y <= x
DiffMap(pl1, pl2) ==
    [r \in 1..8 |->
        IF DiffFiles(pl1, pl2, r - 1) = {} THEN ZerosStr
        ELSE U8(OneAt(Max(DiffFiles(pl1, pl2, r - 1))))]
DiffFound(pl1, pl2, lm) ==
    \E n \in 0..7 : \E f \in DiffFiles(pl1, pl2, n) :
        ~square_in_last_move(lm, SquareName(Sq(f, n)))
\* the LED state show_board_diff leaves, given the one it found
show_board_diff(pl1, pl2, lm, leds0) ==
    IF DiffFound(pl1, pl2, lm) THEN LedMap(DiffMap(pl1, pl2))
    ELSE IF lm # None THEN LedMap(build_led_map_for_move(lm))
    ELSE leds0

\* ------------------------------------------------------------------------
\* niclink/bluetooth: the position in a snapshot of the board, 32 bytes
\* ------------------------------------------------------------------------
MASKLOW == 15
\* the letter of a nibble
convertDict ==
    [n \in 0..12 |->
        <<" ", "q", "k", "b", "p", "n", "R", "P", "r", "B", "N", "Q", "K">>[n + 1]]

\* str(preceding_empty) + convertDict[piece_code], or the letter alone
fen_constructor(preceding_empty, piece_code) ==
    IF preceding_empty = 0
    THEN <<convertDict[piece_code]>>
    ELSE <<DIGITS[preceding_empty], convertDict[piece_code]>>

\* board_fen: the squares of the row counterColum in the order of the two
\* loops: reversed(data[counterColum*4 : counterColum*4+4]), and of each
\* byte b >> 4, then b & MASKLOW
RowSquares(data, counterColum) ==
    [i \in 1..8 |->
        LET b == data[counterColum * 4 + 4 - ((i - 1) \div 2)]
        IN  IF i % 2 = 1 THEN b \div 16 ELSE b % (MASKLOW + 1)]
\* board_fen: what the squares i..8 of a row add to FEN, c the count of
\* empty squares since the last piece of the row
RECURSIVE RowFen(_, _, _)
RowFen(squares, i, c) ==
    IF i > 8 THEN <<>>
    ELSE IF squares[i] = 0
    THEN (IF c + 1 = 8 THEN <<"8">> ELSE <<>>) \o RowFen(squares, i + 1, c + 1)
    ELSE fen_constructor(c, squares[i]) \o RowFen(squares, i + 1, 0)
\* board_fen: the rows from counterColum on, each with the slash that
\* follows it `if counterColum != 8`
RECURSIVE RowsFrom(_, _)
RowsFrom(data, counterColum) ==
    IF counterColum = 8 THEN <<>>
    ELSE RowFen(RowSquares(data, counterColum), 1, 0)
            \o (IF counterColum # 8 THEN <<"/">> ELSE <<>>)
            \o RowsFrom(data, counterColum + 1)
board_fen(data) == RowsFrom(data, 0)

\* the snapshot the board sends for a position: square k of the device
\* order H8, G8, ..., A8, H7, ..., A1 is the low nibble of byte k div 2
\* when k is even, the high nibble when k is odd
DeviceSquare(f, r) == (7 - r) * 8 + (7 - f)
Snapshot(nibbles) ==
    [j \in 1..32 |-> nibbles[2 * (j - 1)] + 16 * nibbles[2 * (j - 1) + 1]]
\* the nibble of the square of file f, rank r in a snapshot
NibbleAt(data, f, r) ==
    LET k == DeviceSquare(f, r)
        b == data[(k \div 2) + 1]
    IN  IF k % 2 = 0 THEN b % 16 ELSE b \div 16
\* piece n on the files S of rank r, nothing else on the board
RankSnapshot(r, S, n) ==
    Snapshot([k \in 0..63 |->
                 IF \E f \in S : k = DeviceSquare(f, r) THEN n ELSE 0])
\* the snapshot of the starting position, as the module calls board_fen
\* with it: 58 23 31 85 44 44 44 44 00 .. 00 77 77 77 77 A6 C9 9B 6A
StartSnapshot ==
    <<88, 35, 49, 133, 68, 68, 68, 68, 0, 0, 0, 0, 0, 0, 0, 0,
      0, 0, 0, 0, 0, 0, 0, 0, 119, 119, 119, 119, 166, 201, 155, 106>>
\* the snapshots board_fen is given: the starting position, and the boards
\* with men of one kind n on the files S of one rank r
SnapshotMenu(n) ==
    {StartSnapshot}
        \cup {RankSnapshot(r, S, n) : r \in 0..7, S \in SUBSET (0..7)}

\* leds: set_bit(v, index, x), the bit of weight 2^index of v cleared and,
\* if x, set
set_bit(v, index, x) ==
    LET mask == 2 ^ index
        cleared == IF (v \div mask) % 2 = 1 THEN v - mask ELSE v
    IN  IF x THEN cleared + mask ELSE cleared
\* str.isalnum of a letter of convertDict: every letter but the blank
isalnum(ch) == ch # " "
\* leds: the frame before the loops, bytearray([0x0A, 0x08, 0x1, 0x00, ...])
LedFrame0 == <<10, 8, 1, 0, 0, 0, 0, 0, 0, 0>>
\* leds: the byte of the row counterColum after the bytes counter..3 of
\* data[counterColum*4 : counterColum*4+4], in that order, each with its
\* low nibble at bit counter*2 and its high nibble at bit counter*2+1
RECURSIVE LedRow(_, _, _, _)
LedRow(data, counterColum, counter, v) ==
    IF counter = 4 THEN v
    ELSE LET b == data[counterColum * 4 + counter + 1]
             n1 == convertDict[b % (MASKLOW + 1)]
             v1 == IF isalnum(n1) THEN set_bit(v, counter * 2, TRUE) ELSE v
             n2 == convertDict[b \div 16]
             v2 == IF isalnum(n2) THEN set_bit(v1, counter * 2 + 1, TRUE) ELSE v1
         IN  LedRow(data, counterColum, counter + 1, v2)
\* leds(data): the ten bytes written to the board
led_frame(data) ==
    [i \in 1..10 |->
        IF i <= 2 THEN LedFrame0[i] ELSE LedRow(data, i - 3, 0, LedFrame0[i])]

\* ------------------------------------------------------------------------
\* Inputs of the model: the positions the physical board shows, the boards
\* and moves a game session hands to the manager
\* ------------------------------------------------------------------------
E2E4 == <<"e", "2", "e", "4">>
E7E5 == <<"e", "7", "e", "5">>
\* a pawn about to promote: white K a1, P b7; black k h8, r c8
PromoFen == <<"2", "r", "4", "k", "/", "1", "P", "6", "/", "8", "/", "8", "/",
              "8", "/", "8", "/", "8", "/", "K", "7">>
PromoPl == ParseBoardFen(PromoFen)
AfterE4 == PushAll(NewBoard, <<E2E4>>)
AfterE4E5 == PushAll(NewBoard, <<E2E4, E7E5>>)
\* 1.f3 e5 2.g4 Qh4#: Black mates
FoolsMate ==
    << <<"f", "2", "f", "3">>, <<"e", "7", "e", "5">>, <<"g", "2", "g", "4">>,
      <<"d", "8", "h", "4">> >>
\* 1.e4 e5 2.Bc4 Nc6 3.Qh5 Nf6 4.Qxf7#: White mates
ScholarsMate ==
    << <<"e", "2", "e", "4">>, <<"e", "7", "e", "5">>, <<"f", "1", "c", "4">>,
      <<"b", "8", "c", "6">>, <<"d", "1", "h", "5">>, <<"g", "8", "f", "6">>,
      <<"h", "5", "f", "7">> >>
\* 1.e3 a5 2.Qh5 Ra6 3.Qxa5 h5 4.h4 Rah6 5.Qxc7 f6 6.Qxd7+ Kf7 7.Qxb7 Qd3
\* 8.Qxb8 Qh7 9.Qxc8 Kg6 10.Qe6: Black is stalemated
LoydStalemate ==
    << <<"e", "2", "e", "3">>, <<"a", "7", "a", "5">>, <<"d", "1", "h", "5">>,
      <<"a", "8", "a", "6">>, <<"h", "5", "a", "5">>, <<"h", "7", "h", "5">>,
      <<"h", "2", "h", "4">>, <<"a", "6", "h", "6">>, <<"a", "5", "c", "7">>,
      <<"f", "7", "f", "6">>, <<"c", "7", "d", "7">>, <<"e", "8", "f", "7">>,
      <<"d", "7", "b", "7">>, <<"d", "8", "d", "3">>, <<"b", "7", "b", "8">>,
      <<"d", "3", "h", "7">>, <<"b", "8", "c", "8">>, <<"f", "7", "g", "6">>,
      <<"c", "8", "e", "6">> >>
\* a game of 48 plies that leaves king and knight against king
LoneKnightGame ==
    << <<"h", "2", "h", "4">>, <<"g", "7", "g", "5">>, <<"h", "4", "g", "5">>,
      <<"e", "7", "e", "5">>, <<"h", "1", "h", "7">>, <<"d", "8", "g", "5">>,
      <<"h", "7", "h", "8">>, <<"g", "5", "g", "2">>, <<"h", "8", "g", "8">>,
      <<"g", "2", "g", "1">>, <<"g", "8", "g", "1">>, <<"f", "8", "g", "7">>,
      <<"g", "1", "g", "7">>, <<"e", "8", "d", "8">>, <<"g", "7", "f", "7">>,
      <<"c", "7", "c", "5">>, <<"f", "7", "d", "7">>, <<"c", "8", "d", "7">>,
      <<"b", "2", "b", "4">>, <<"c", "5", "b", "4">>, <<"a", "2", "a", "3">>,
      <<"b", "4", "a", "3">>, <<"c", "1", "a", "3">>, <<"d", "7", "h", "3">>,
      <<"f", "1", "h", "3">>, <<"b", "8", "d", "7">>, <<"h", "3", "d", "7">>,
      <<"d", "8", "d", "7">>, <<"a", "3", "d", "6">>, <<"d", "7", "d", "6">>,
      <<"a", "1", "a", "7">>, <<"a", "8", "a", "7">>, <<"d", "2", "d", "4">>,
      <<"a", "7", "a", "2">>, <<"d", "4", "e", "5">>, <<"d", "6", "e", "5">>,
      <<"b", "1", "c", "3">>, <<"a", "2", "c", "2">>, <<"d", "1", "c", "2">>,
      <<"b", "7", "b", "5">>, <<"c", "3", "b", "5">>, <<"e", "5", "f", "4">>,
      <<"c", "2", "e", "4">>, <<"f", "4", "e", "4">>, <<"f", "2", "f", "4">>,
      <<"e", "4", "f", "4">>, <<"e", "2", "e", "3">>,
      <<"f", "4", "e", "3">> >>
\* a knight of each side goes round: White's in 4 moves, Black's in 10
WhiteKnightCycle ==
    << <<"g", "1", "h", "3">>, <<"h", "3", "g", "5">>, <<"g", "5", "f", "3">>,
      <<"f", "3", "g", "1">> >>
BlackKnightCycle ==
    << <<"b", "8", "c", "6">>, <<"c", "6", "e", "5">>, <<"e", "5", "g", "6">>,
      <<"g", "6", "h", "4">>, <<"h", "4", "f", "5">>, <<"f", "5", "g", "3">>,
      <<"g", "3", "e", "4">>, <<"e", "4", "c", "5">>, <<"c", "5", "a", "6">>,
      <<"a", "6", "b", "8">> >>
\* 1.Nf3 Nf6 2.Ng1 Ng8: the position before it stands again
KnightShuffle ==
    << <<"g", "1", "f", "3">>, <<"g", "8", "f", "6">>, <<"f", "3", "g", "1">>,
      <<"f", "6", "g", "8">> >>
\* the shuffle four times over: the starting position for the fifth time
FivefoldGame == KnightShuffle \o KnightShuffle \o KnightShuffle \o KnightShuffle
\* 150 plies of the two knights' rounds: no capture, no pawn move, and no
\* position more than four times
NoProgressGame ==
    [i \in 1..SeventyFiveMoves |->
        IF i % 2 = 1 THEN WhiteKnightCycle[(((i - 1) \div 2) % 4) + 1]
        ELSE BlackKnightCycle[(((i - 2) \div 2) % 10) + 1]]
\* what set_game_board is given: a board replayed from a move list
BoardMenu == {NewBoard, AfterE4}
\* what start_960 is given
StartFenMenu == {PromoFen}
\* what opponent_moved is given
OpponentMoveMenu == {E7E5}
\* the positions on the physical board: in a game from the standard start,
\* and in a game from PromoFen
ExtMenu ==
    { StartPl,
      AfterE4.pl,
      \* two pawns pushed at once: no single legal move gives it
      AfterE4E5.pl }
ExtMenu960 ==
    { PromoPl,
      \* b7xc8=N
      Moved(PromoPl, FromUci(<<"b", "7", "c", "8", "n">>)),
      StartPl }
\* the moves of the first state of a game stream: a game that begins
FirstStateMenu == {<<>>, <<E2E4>>}
\* the gameState events of a game stream: the moves so far and, when the
\* game is decided, the winner ("none": the event has no such key)
StateMenu ==
    { [moves |-> <<E2E4>>, winner |-> "none"],
      [moves |-> <<E2E4, E7E5>>, winner |-> "none"],
      [moves |-> FoolsMate, winner |-> "black"],
      [moves |-> ScholarsMate, winner |-> "white"],
      [moves |-> LoydStalemate, winner |-> "none"],
      [moves |-> LoneKnightGame, winner |-> "none"],
      [moves |-> FivefoldGame, winner |-> "none"],
      [moves |-> NoProgressGame, winner |-> "none"] }
\* the gameState events that follow the first one
FollowMenu ==
    { [moves |-> <<E2E4, E7E5>>, winner |-> "none"],
      [moves |-> ScholarsMate, winner |-> "white"] }
\* the n-th gameState event of a game stream
StateMenus(n) == IF n = 1 THEN StateMenu ELSE FollowMenu
\* what berserk_client.games.get_ongoing() tells of the game that starts:
\* its speed, that it is not listed ("absent"), or an exception ("error")
OngoingMenu == {"correspondence", "blitz", "absent", "error"}
\* how the server answers a move that is submitted
ResponseMenu == {"ok", "not your turn", "error"}
\* the move lists of FirstStateMenu and StateMenu
MovesMenu == FirstStateMenu \cup {e.moves : e \in StateMenu}
\* what get_fen() returns for them
ExtFens == {BoardFen(pl) : pl \in ExtMenu}
ExtFens960 == {BoardFen(pl) : pl \in ExtMenu960}

\* ------------------------------------------------------------------------
\* State
\* ------------------------------------------------------------------------
VARIABLES
    \* NicLinkManager (driver.py)
    game_board,     \* self.game_board
    last_move,      \* self.last_move: a UCI string or None
    starting_fen,   \* self.starting_fen: a FEN or None
    game_over,      \* self.game_over.is_set()
    kill_switch,    \* self.kill_switch.is_set()
    start_game,     \* self.start_game.is_set()
    has_moved,      \* self.has_moved.is_set()
    leds,           \* the LEDs of the board
    \* the thread inside await_move: where it is (pc), the FEN check_for_move
    \* read (fen), the move it popped (popped), the exception in flight
    \* (exc), what await_move returned or raised (res); and, kept for the
    \* properties, game_board and last_move as check_for_move found them
    \* (board0, lm0; called: these are set) and whether it read the same FEN
    \* as the call before it (same); a call that ends in an exception of the
    \* hardware is not a call before it
    am,
    \* the lichess client (lichess/__main__.py)
    main,           \* the main thread, in main()
    run,            \* the thread of NicLinkManager.run
    connected,      \* nl_interface is connected to the board
    game,           \* the Game object and its thread, in Game.run
    hsc,            \* the thread in handle_state_change or make_move
    gd,             \* per thread: where it is in game_done
    lichess,        \* what the server and the chess clock were sent, and what
                    \* the server answered to the last submission
    caller,         \* another thread that calls the manager: its last call
                    \* (op) and the game_board the call read (saw)
    \* the bluetooth reader (niclink/bluetooth/__main__.py)
    bt,             \* the snapshot board_fen was called with (data), and
                    \* the string it returned (fen)
    old             \* the Game before the present one: whether the
                    \* await_move it started is still in progress (await),
                    \* whether its stream thread still reads (stream), and
                    \* how many Games were built after the first (games)

vars == <<game_board, last_move, starting_fen, game_over, kill_switch,
          start_game, has_moved, leds, am,
          main, run, connected, game, hsc, gd, lichess, caller, bt, old>>
session_vars == <<main, run, connected, game, hsc, gd, lichess, caller, bt, old>>
manager_vars == <<game_board, last_move, starting_fen, game_over, kill_switch,
                  start_game, has_moved, leds>>
signal_vars == <<game_over, kill_switch, start_game, has_moved>>

NoEntry == [from |-> 0, to |-> 0, promo |-> "", piece |-> Empty, captured |-> Empty]
NoResult == [kind |-> "none", move |-> None]
Result(k, m) == [kind |-> k, move |-> m]
\* an outcome of find_move_from_fen_change: a move, or an exception with
\* the two positions of its message
NoFind == [kind |-> "none", move |-> None, enumerated |-> FALSE,
           seen |-> <<>>, on |-> <<>>]
AmIdle == [pc |-> "idle", fen |-> <<>>, popped |-> NoEntry,
           exc |-> NoFind, res |-> NoResult,
           called |-> FALSE, board0 |-> NewBoard, lm0 |-> None, same |-> FALSE]
\* check_for_move has returned: what was kept of the call is dropped
Forget(t) == [t EXCEPT !.called = FALSE, !.board0 = NewBoard, !.lm0 = None,
                       !.same = FALSE]

\* the threads that call game_done
Threads == {"main", "game", "worker"}
MainIdle == [pc |-> "events", resigned |-> FALSE, exit |-> "none"]
NoEvent == [moves |-> <<>>, winner |-> "none"]
NoFetch == [full |-> FALSE, move |-> None]
\* no Game yet. pc: "none", "init" (in Game.__init__, the global `game` is
\* not assigned yet), "stream", "join", "game_done", "dead"; and, kept for
\* the properties, the move list of the terminal state update for which
\* handle_state_change has signalled the end of the game (terminal)
GameNone == [pc |-> "none", playing_white |-> FALSE, chess_clock |-> FALSE,
             event |-> NoEvent, events |-> 0, has_moved |-> FALSE,
             fetched |-> NoFetch, awaiting |-> FALSE, response_error |-> FALSE,
             terminal |-> <<>>]
\* no thread in handle_state_change. pc: "none", "update", "get_move",
\* "wait_move", "make_move", "game_done"; by: the thread that runs it; and,
\* kept for the properties, how many times the server has answered this
\* call of make_move with a ResponseError that is not "Not your turn"
\* (rejected)
HscNone == [pc |-> "none", by |-> "none", moves |-> <<>>, move |-> None,
            rejected |-> 0]
GdNone == [pc |-> "no", winner |-> "None"]
NoBoard == [pl |-> <<>>, turn |-> WHITE, stack |-> <<>>]
CallerIdle == [op |-> "none", saw |-> NoBoard]
\* board_fen has not been called
BtNone == [data |-> <<>>, fen |-> <<>>]
\* no Game was replaced by another
OldNone == [await |-> FALSE, stream |-> FALSE, games |-> 0]
\* the process runs: its threads, all daemons but the main thread, take steps
Alive == main.pc # "exited"

\* ------------------------------------------------------------------------
\* NicLinkManager
\* ------------------------------------------------------------------------
\* the order in which the legal moves are tried
MoveKey(m) ==
    (m.from * 64 + m.to) * 5
    + (CASE m.promo = "" -> 0 [] m.promo = "q" -> 1 [] m.promo = "r" -> 2
         [] m.promo = "b" -> 3 [] m.promo = "n" -> 4)
FirstMove(S) == CHOOSE m \in S : \A o \in S : MoveKey(m) <= MoveKey(o)

\* find_move_from_fen_change without `tmp_board.pop()`: only the first
\* candidate is tried on the position of game_board
find_move_keeps_pushing(b, new_fen, hw_ok) ==
    LET found == {m \in LegalMoves(b) :
                     /\ m = FirstMove(LegalMoves(b))
                     /\ BoardFen(Push(b, m).pl) = new_fen}
    IN  IF new_fen = BoardFen(b.pl) THEN [NoFind EXCEPT !.kind = "NoMove"]
        ELSE IF ~hw_ok THEN [NoFind EXCEPT !.kind = "NoNicLinkFen"]
        ELSE IF found # {}
        THEN [NoFind EXCEPT !.kind = "move", !.move = Uci(FirstMove(found)),
                            !.enumerated = TRUE]
        ELSE [kind |-> "IllegalMove", move |-> None, enumerated |-> TRUE,
              seen |-> ParseBoardFen(new_fen), on |-> b.pl]

\* find_move_from_fen_change that falls back on the first legal move when
\* none reproduces new_fen
find_move_accepts_any(b, new_fen, hw_ok) ==
    LET found == {m \in LegalMoves(b) : BoardFen(Push(b, m).pl) = new_fen}
    IN  IF new_fen = BoardFen(b.pl) THEN [NoFind EXCEPT !.kind = "NoMove"]
        ELSE IF ~hw_ok THEN [NoFind EXCEPT !.kind = "NoNicLinkFen"]
        ELSE [NoFind EXCEPT
                !.kind = "move", !.enumerated = TRUE,
                !.move = Uci(FirstMove(IF found # {} THEN found ELSE LegalMoves(b)))]

\* find_move_from_fen_change without the early comparison of the two FENs
find_move_no_early_exit(b, new_fen, hw_ok) ==
    LET found == {m \in LegalMoves(b) : BoardFen(Push(b, m).pl) = new_fen}
    IN  IF ~hw_ok THEN [NoFind EXCEPT !.kind = "NoNicLinkFen"]
        ELSE IF found # {}
        THEN [NoFind EXCEPT !.kind = "move", !.move = Uci(FirstMove(found)),
                            !.enumerated = TRUE]
        ELSE [kind |-> "IllegalMove", move |-> None, enumerated |-> TRUE,
              seen |-> ParseBoardFen(new_fen), on |-> b.pl]

\* find_move_from_fen_change(new_fen) on game_board b: what it returns or
\* raises. hw_ok: the board answers the get_fen() of the debug message.
find_move_from_fen_change(b, new_fen, hw_ok) ==
    LET old_fen == BoardFen(b.pl)
        found == {m \in LegalMoves(b) : BoardFen(Push(b, m).pl) = new_fen}
    IN  IF new_fen = old_fen
        THEN [NoFind EXCEPT !.kind = "NoMove"]
        ELSE IF ~hw_ok
        THEN [NoFind EXCEPT !.kind = "NoNicLinkFen"]
        ELSE IF found # {}
        THEN [NoFind EXCEPT !.kind = "move", !.move = Uci(FirstMove(found)),
                            !.enumerated = TRUE]
        ELSE [kind |-> "IllegalMove", move |-> None, enumerated |-> TRUE,
              seen |-> ParseBoardFen(new_fen), on |-> b.pl]

\* reset() that leaves the Events as they are
ResetKeepsSignals(fen, board) ==
    /\ starting_fen' = fen
    /\ game_board' = board
    /\ last_move' = None
    /\ leds' = LedsOff
    /\ UNCHANGED signal_vars

\* reset()
Reset(fen, board) ==
    /\ starting_fen' = fen
    /\ game_board' = board
    /\ last_move' = None
    /\ leds' = LedsOff
    /\ game_over' = FALSE
    /\ has_moved' = FALSE
    /\ kill_switch' = FALSE
    /\ start_game' = FALSE

\* await_move looping `while True`
AmWhileIgnoresKill ==
    /\ Alive /\ am.pc = "am_while"
    /\ am' = [Forget(am) EXCEPT !.pc = "am_over"]
    /\ UNCHANGED <<manager_vars, session_vars>>

\* await_move: the loop condition
AmWhile ==
    /\ Alive /\ am.pc = "am_while"
    /\ am' = IF kill_switch
             THEN [Forget(am) EXCEPT !.pc = "returned",
                                     !.res = Result("ExitNicLink", None)]
             ELSE [Forget(am) EXCEPT !.pc = "am_over"]
    /\ UNCHANGED <<manager_vars, session_vars>>

\* await_move without its own game-over check
AmGameOverNotChecked ==
    /\ Alive /\ am.pc = "am_over"
    /\ am' = [am EXCEPT !.pc = "cfm_fen"]
    /\ UNCHANGED <<manager_vars, session_vars>>

\* await_move that clears game_over when it has seen it set
AmGameOverClears ==
    /\ Alive /\ am.pc = "am_over"
    /\ \/ /\ game_over
          /\ am' = [am EXCEPT !.pc = "returned", !.res = Result("None", None)]
          /\ game_over' = FALSE
       \/ /\ ~game_over
          /\ am' = [am EXCEPT !.pc = "cfm_fen"]
          /\ game_over' = game_over
    /\ UNCHANGED <<game_board, last_move, starting_fen, kill_switch, start_game,
                   has_moved, leds, session_vars>>

\* await_move: the game-over check that opens an iteration
AmGameOver ==
    /\ Alive /\ am.pc = "am_over"
    /\ \/ /\ game_over
          /\ am' = [am EXCEPT !.pc = "returned", !.res = Result("None", None)]
       \/ /\ ~game_over
          /\ am' = [am EXCEPT !.pc = "cfm_fen"]
    /\ UNCHANGED <<manager_vars, session_vars>>

\* check_for_move that takes a failed read for "no move yet": the loop of
\* await_move polls again
CfmReadFenRetries ==
    /\ Alive /\ am.pc = "cfm_fen"
    /\ \/ \E new_fen \in IF starting_fen = None THEN ExtFens ELSE ExtFens960 :
             am' = [am EXCEPT !.pc = "cfm_pop", !.fen = new_fen,
                              !.called = TRUE, !.board0 = game_board,
                              !.lm0 = last_move, !.same = (am.fen = new_fen)]
       \/ am' = [am EXCEPT !.pc = "am_while"]
    /\ UNCHANGED <<manager_vars, session_vars>>

\* check_for_move: read the physical board; it shows one of the positions
\* of ExtMenu, or the read fails (None)
CfmReadFen ==
    /\ Alive /\ am.pc = "cfm_fen"
    /\ \/ \E new_fen \in IF starting_fen = None THEN ExtFens ELSE ExtFens960 :
             am' = [am EXCEPT !.pc = "cfm_pop", !.fen = new_fen,
                              !.called = TRUE, !.board0 = game_board,
                              !.lm0 = last_move, !.same = (am.fen = new_fen)]
       \/ am' = [am EXCEPT !.pc = "returned", !.res = Result("ValueError", None)]
    /\ UNCHANGED <<manager_vars, session_vars>>

\* check_for_move: pop the last move (IndexError on an empty stack)
CfmPop ==
    /\ Alive /\ am.pc = "cfm_pop"
    /\ IF game_board.stack = <<>>
       THEN /\ am' = [am EXCEPT !.pc = "cfm_over", !.popped = NoEntry]
            /\ UNCHANGED game_board
       ELSE /\ am' = [am EXCEPT !.pc = "cfm_cmp",
                                !.popped = game_board.stack[Len(game_board.stack)]]
            /\ game_board' = Pop(game_board)
    /\ UNCHANGED <<last_move, starting_fen, signal_vars, leds, session_vars>>

\* check_for_move returning early without pushing the move back
CfmCompareNoPushBack ==
    /\ Alive /\ am.pc = "cfm_cmp"
    /\ IF am.fen = BoardFen(game_board.pl)
       THEN /\ am' = [am EXCEPT !.pc = "am_while", !.popped = NoEntry]
            /\ UNCHANGED game_board
       ELSE /\ am' = [am EXCEPT !.pc = "cfm_over", !.popped = NoEntry]
            /\ game_board' = Push(game_board,
                                  Mv(am.popped.from, am.popped.to, am.popped.promo))
    /\ UNCHANGED <<last_move, starting_fen, signal_vars, leds, session_vars>>

\* check_for_move without the debounce: the move is pushed back and the
\* reported position always goes on to move inference
CfmCompareInfersMove ==
    /\ Alive /\ am.pc = "cfm_cmp"
    /\ am' = [am EXCEPT !.pc = "cfm_over", !.popped = NoEntry]
    /\ game_board' = Push(game_board, Mv(am.popped.from, am.popped.to, am.popped.promo))
    /\ UNCHANGED <<last_move, starting_fen, signal_vars, leds, session_vars>>

\* check_for_move: is the board still as it was before the last move?
\* Either way the move is pushed back.
CfmCompare ==
    /\ Alive /\ am.pc = "cfm_cmp"
    /\ am' = IF am.fen = BoardFen(game_board.pl)
             THEN [am EXCEPT !.pc = "am_while", !.popped = NoEntry]
             ELSE [am EXCEPT !.pc = "cfm_over", !.popped = NoEntry]
    /\ game_board' = Push(game_board, Mv(am.popped.from, am.popped.to, am.popped.promo))
    /\ UNCHANGED <<last_move, starting_fen, signal_vars, leds, session_vars>>

\* check_for_move: `new_fen != self.game_board.board_fen` compares a string
\* with a method and is always true; then the game-over check
CfmGameOver ==
    /\ Alive /\ am.pc = "cfm_over"
    /\ am' = IF game_over THEN [am EXCEPT !.pc = "am_while"]
             ELSE [am EXCEPT !.pc = "cfm_find"]
    /\ UNCHANGED <<manager_vars, session_vars>>

\* check_for_move: self.last_move = self.find_move_from_fen_change(new_fen)
CfmFind ==
    /\ Alive /\ am.pc = "cfm_find"
    /\ \E hw_ok \in BOOLEAN :
          LET r == find_move_from_fen_change(game_board, am.fen, hw_ok)
          IN  /\ am' = IF r.kind = "move" THEN [am EXCEPT !.pc = "cfm_ret"]
                       ELSE [am EXCEPT !.pc = "cfm_exc", !.exc = r]
              /\ last_move' = IF r.kind = "move" THEN r.move ELSE last_move
              \* before raising IllegalMove the diff is shown
              /\ leds' = IF r.kind = "IllegalMove"
                         THEN show_board_diff(r.seen, game_board.pl, last_move, leds)
                         ELSE leds
    /\ UNCHANGED <<game_board, starting_fen, signal_vars, session_vars>>

\* check_for_move without its `except IllegalMove`: await_move catches it
\* only after check_for_move was left, and nothing shows the diff again;
\* here it ends the call
CfmExceptNotCaught ==
    /\ Alive /\ am.pc = "cfm_exc"
    /\ am' = IF am.exc.kind = "NoMove"
             THEN [am EXCEPT !.pc = "am_while", !.exc = NoFind]
             ELSE [am EXCEPT !.pc = "returned", !.exc = NoFind,
                             !.res = Result(am.exc.kind, None)]
    /\ UNCHANGED <<manager_vars, session_vars>>

\* the exception of find_move_from_fen_change is handled: IllegalMove by
\* check_for_move (show the diff, return False), NoMove by await_move
\* (continue); NoNicLinkFen by neither
CfmExcept ==
    /\ Alive /\ am.pc = "cfm_exc"
    /\ am' = IF am.exc.kind = "NoNicLinkFen"
             THEN [am EXCEPT !.pc = "returned", !.exc = NoFind, !.fen = None,
                             !.res = Result("NoNicLinkFen", None)]
             ELSE [am EXCEPT !.pc = "am_while", !.exc = NoFind]
    /\ leds' = IF am.exc.kind = "IllegalMove"
               THEN show_board_diff(ParseBoardFen(am.fen), game_board.pl, last_move, leds)
               ELSE leds
    /\ UNCHANGED <<game_board, last_move, starting_fen, signal_vars,
                   session_vars>>

\* check_for_move: `with self.lock: return self.last_move`
CfmReturn ==
    /\ Alive /\ am.pc = "cfm_ret"
    /\ am' = IF last_move # None THEN [am EXCEPT !.pc = "am_last"]
             ELSE [am EXCEPT !.pc = "am_while"]
    /\ UNCHANGED <<manager_vars, session_vars>>

\* await_move: move = self.get_last_move(); return move
AmGetLast ==
    /\ Alive /\ am.pc = "am_last"
    /\ am' = IF last_move = None
             THEN [Forget(am) EXCEPT !.pc = "returned",
                                     !.res = Result("ValueError", None)]
             ELSE [Forget(am) EXCEPT !.pc = "returned",
                                     !.res = Result("move", last_move)]
    /\ UNCHANGED <<manager_vars, session_vars>>

\* ------------------------------------------------------------------------
\* The callers of the manager, one call at a time, and the signals
\* ------------------------------------------------------------------------
\* nl_inst.await_move()
CallAwaitMove ==
    /\ am.pc = "idle"
    /\ am' = [am EXCEPT !.pc = "am_while"]
    /\ UNCHANGED <<manager_vars, session_vars>>

\* the caller takes what await_move returned or raised
AwaitMoveReturns ==
    /\ am.pc = "returned"
    /\ am' = [AmIdle EXCEPT !.fen = am.fen]
    /\ UNCHANGED <<manager_vars, session_vars>>

\* nl_inst.reset()
CallReset ==
    /\ am.pc = "idle"
    /\ Reset(None, NewBoard)
    /\ am' = AmIdle
    /\ UNCHANGED session_vars

\* nl_inst.set_game_board(board)
CallSetGameBoard ==
    /\ am.pc = "idle"
    /\ \E b \in BoardMenu : game_board' = b
    /\ am' = AmIdle
    /\ UNCHANGED <<last_move, starting_fen, signal_vars, leds, session_vars>>

\* nl_inst.start_960(starting_fen)
CallStart960 ==
    /\ am.pc = "idle"
    /\ \E fen \in StartFenMenu :
          Reset(fen, [pl |-> ParseBoardFen(fen), turn |-> WHITE, stack |-> <<>>])
    /\ am' = AmIdle
    /\ UNCHANGED session_vars

\* nl_inst.opponent_moved(move)
CallOpponentMoved ==
    /\ am.pc = "idle"
    /\ \E move \in OpponentMoveMenu :
          /\ last_move' = move
          /\ leds' = LedMap(build_led_map_for_move(move))
    /\ am' = AmIdle
    /\ UNCHANGED <<game_board, starting_fen, signal_vars, session_vars>>

\* nl_inst.game_over.set()
SetGameOver ==
    /\ ~game_over
    /\ game_over' = TRUE
    /\ UNCHANGED <<game_board, last_move, starting_fen, kill_switch, start_game,
                   has_moved, leds, am, session_vars>>

\* nl_inst.kill_switch.set()
SetKillSwitch ==
    /\ ~kill_switch
    /\ kill_switch' = TRUE
    /\ UNCHANGED <<game_board, last_move, starting_fen, game_over, start_game,
                   has_moved, leds, am, session_vars>>

Init ==
    /\ game_board = NewBoard
    /\ last_move = None
    /\ starting_fen = None
    /\ game_over = FALSE
    /\ kill_switch = FALSE
    /\ start_game = FALSE
    /\ has_moved = FALSE
    /\ leds = LedsOff
    /\ am = AmIdle
    /\ main = MainIdle
    /\ run = "run_while"
    /\ connected = TRUE
    /\ game = GameNone
    /\ hsc = HscNone
    /\ gd = [t \in Threads |-> GdNone]
    /\ lichess = [moves |-> <<>>, clock |-> <<>>, answer |-> "none"]
    /\ caller = CallerIdle
    /\ bt = BtNone
    /\ old = OldNone

Next ==
    \/ AmWhile \/ AmGameOver \/ CfmReadFen \/ CfmPop \/ CfmCompare
    \/ CfmGameOver \/ CfmFind \/ CfmExcept \/ CfmReturn \/ AmGetLast
    \/ CallAwaitMove \/ AwaitMoveReturns \/ CallReset \/ CallSetGameBoard
    \/ CallStart960 \/ CallOpponentMoved \/ SetGameOver \/ SetKillSwitch

Spec == Init /\ [][Next]_vars

\* ------------------------------------------------------------------------
\* The lichess client: main(), NicLinkManager.run, Game
\* ------------------------------------------------------------------------
\* update_tmp_chessboard(move_list): the moves pushed on a new board
update_tmp_chessboard(move_list) == PushAll(NewBoard, move_list)
\* tmp_chessboard and tmp_chessboard.outcome() for the move lists received
TmpBoards == [ml \in MovesMenu |-> update_tmp_chessboard(ml)]
Outcomes == [ml \in MovesMenu |-> Outcome(TmpBoards[ml])]
\* the winner handle_state_change passes to game_done
WinnerName(result) ==
    IF result.winner = "none" THEN "no winner"
    ELSE IF result.winner = "white" THEN "White" ELSE "Black"
\* what game_done(winner) tells the chess clock
ClockCall(winner) ==
    IF winner = "None" THEN "game_over"
    ELSE IF winner = "white" THEN "white_won" ELSE "black_won"

CallGameDone(t, winner) == [gd EXCEPT ![t] = [pc |-> "signal", winner |-> winner]]
\* the main thread ends, by sys.exit or by an exception nothing catches.
\* Every other thread is a daemon: the process ends and they end with it
ProcessEnds(kind) ==
    /\ main' = [MainIdle EXCEPT !.pc = "exited", !.exit = kind]
    /\ am' = AmIdle
    /\ game' = [GameNone EXCEPT !.pc = "dead"]
    /\ hsc' = HscNone
    /\ gd' = [t \in Threads |-> GdNone]
\* handle_state_change or make_move returns: its thread ends, or, in
\* Game.__init__, handle_game_start starts the Game thread and the event
\* loop checks the kill switch
HscReturns(g) ==
    IF hsc.by = "main" /\ kill_switch
    THEN ProcessEnds("sys.exit")
    ELSE /\ hsc' = HscNone
         /\ game' = IF hsc.by = "main" THEN [g EXCEPT !.pc = "stream"] ELSE g
         /\ main' = IF hsc.by = "main" THEN [main EXCEPT !.pc = "events"]
                    ELSE main
         /\ UNCHANGED <<am, gd>>
\* an exception that nothing catches leaves it: the thread dies, and with
\* the main thread the process
HscDies ==
    IF hsc.by = "main"
    THEN ProcessEnds("crash")
    ELSE /\ hsc' = HscNone
         /\ UNCHANGED <<am, game, main, gd>>

\* is_correspondence(gameId): the speed get_ongoing() lists for the game;
\* a game that is not listed, or an exception, counts as not correspondence
is_correspondence(ongoing) == ongoing = "correspondence"

\* handle_game_start that builds the Game, then looks at the speed and
\* drops it
MainGameStartFiltersLate(correspondence, ongoing) ==
    /\ main.pc = "events" /\ game.pc = "none" /\ am.pc = "idle"
    /\ IF ~correspondence /\ is_correspondence(ongoing)
       THEN /\ main' = [main EXCEPT !.pc = "skipped"]
            /\ game' = [GameNone EXCEPT !.pc = "dead"]
            /\ UNCHANGED <<am, hsc>>
       ELSE \E playing_white \in BOOLEAN, chess_clock \in BOOLEAN,
               moves \in FirstStateMenu :
               /\ game' = [GameNone EXCEPT !.pc = "init",
                                           !.playing_white = playing_white,
                                           !.chess_clock = chess_clock]
               /\ IF playing_white /\ moves = <<>>
                  THEN /\ main' = [main EXCEPT !.pc = "first_move"]
                       /\ am' = [AmIdle EXCEPT !.pc = "am_while"]
                       /\ hsc' = hsc
                  ELSE /\ main' = [main EXCEPT !.pc = "game_init"]
                       /\ am' = AmIdle
                       /\ hsc' = [HscNone EXCEPT !.pc = "update", !.by = "main",
                                                 !.moves = moves]
    /\ Reset(None, NewBoard)
    /\ UNCHANGED <<run, connected, caller, bt, old, gd, lichess>>

\* handle_game_start(event), in a run with the option --correspondence on
\* or off, for a game that get_ongoing() tells `ongoing` of: the game is
\* skipped, or the Game is built, and Game.__init__ resets the manager and
\* makes the first move or handles the first state, all in the main thread
MainGameStartWith(correspondence, ongoing) ==
    /\ main.pc = "events" /\ game.pc = "none" /\ am.pc = "idle"
    /\ IF ~correspondence /\ is_correspondence(ongoing)
       THEN /\ main' = [main EXCEPT !.pc = "skipped"]
            /\ UNCHANGED <<manager_vars, am, game, hsc>>
       ELSE /\ \E playing_white \in BOOLEAN, chess_clock \in BOOLEAN,
                  moves \in FirstStateMenu :
                  /\ game' = [GameNone EXCEPT !.pc = "init",
                                              !.playing_white = playing_white,
                                              !.chess_clock = chess_clock]
                  /\ IF playing_white /\ moves = <<>>
                     THEN /\ main' = [main EXCEPT !.pc = "first_move"]
                          /\ am' = [AmIdle EXCEPT !.pc = "am_while"]
                          /\ hsc' = hsc
                     ELSE /\ main' = [main EXCEPT !.pc = "game_init"]
                          /\ am' = AmIdle
                          /\ hsc' = [HscNone EXCEPT !.pc = "update", !.by = "main",
                                                    !.moves = moves]
            /\ Reset(None, NewBoard)
    /\ UNCHANGED <<run, connected, caller, bt, old, gd, lichess>>

\* main(): a gameStart event
MainGameStart ==
    \E correspondence \in BOOLEAN, ongoing \in OngoingMenu :
        MainGameStartWith(correspondence, ongoing)

\* main(): handle_game_start has returned without a Game, and the event
\* loop checks the kill switch
MainSkipped ==
    /\ main.pc = "skipped"
    /\ IF kill_switch
       THEN ProcessEnds("sys.exit")
       ELSE /\ main' = [main EXCEPT !.pc = "events"]
            /\ UNCHANGED <<am, game, hsc, gd>>
    /\ UNCHANGED <<manager_vars, run, connected, caller, bt, old, lichess>>

\* make_first_move: await_move has returned or raised
MainFirstMove ==
    /\ main.pc = "first_move" /\ am.pc = "returned"
    /\ IF am.res.kind = "move"
       THEN /\ hsc' = [HscNone EXCEPT !.pc = "make_move", !.by = "main",
                                      !.move = am.res.move]
            /\ main' = [main EXCEPT !.pc = "game_init"]
            /\ am' = [AmIdle EXCEPT !.fen = am.fen]
            /\ UNCHANGED <<game, gd>>
       ELSE IF am.res.kind = "None"
       THEN /\ am' = [AmIdle EXCEPT !.fen = am.fen, !.pc = "am_while"]
            /\ UNCHANGED <<hsc, main, game, gd>>
       ELSE ProcessEnds(IF am.res.kind = "ExitNicLink" THEN "sys.exit"
                        ELSE "crash")
    /\ UNCHANGED <<manager_vars, run, connected, caller, bt, old, lichess>>

\* main(): a gameFull event. handle_resign calls game.game_done(); without a
\* Game the name `game` is not bound
MainGameFull ==
    /\ main.pc = "events"
    /\ game_over' = TRUE
    /\ IF game.pc = "none"
       THEN ProcessEnds("crash")
       ELSE /\ main' = [main EXCEPT !.pc = "game_done"]
            /\ gd' = CallGameDone("main", "None")
            /\ UNCHANGED <<am, game, hsc>>
    /\ UNCHANGED <<game_board, last_move, starting_fen, kill_switch, start_game,
                   has_moved, leds, run, connected, caller, bt, old, lichess>>

\* main(): KeyboardInterrupt. What the main thread was doing is left; in
\* the event loop's `try` the kill switch is set, in the handler of
\* NicLinkGameOver nothing catches it
MainKeyboardInterrupt ==
    /\ main.pc \in {"events", "skipped", "game_init", "first_move", "game_done"}
    /\ IF main.resigned
       THEN /\ ProcessEnds("crash")
            /\ UNCHANGED kill_switch
       ELSE /\ main' = [main EXCEPT !.pc = "interrupted"]
            /\ kill_switch' = TRUE
            /\ hsc' = IF hsc.by = "main" THEN HscNone ELSE hsc
            /\ gd' = [gd EXCEPT !["main"] = GdNone]
            /\ am' = IF main.pc = "first_move" THEN AmIdle ELSE am
            /\ game' = game
    /\ UNCHANGED <<game_board, last_move, starting_fen, game_over, start_game,
                   has_moved, leds, run, connected, caller, bt, old, lichess>>

\* main(): raise ExitNicLink, caught by `except ExitNicLink: sys.exit(0)`
MainExit ==
    /\ main.pc = "interrupted"
    /\ ProcessEnds("sys.exit")
    /\ UNCHANGED <<manager_vars, run, connected, caller, bt, old, lichess>>

\* NicLinkManager.run: the loop, with _run_game when start_game is set
RunWhile ==
    /\ Alive /\ run = "run_while"
    /\ kill_switch \/ (start_game /\ game_over)
    /\ IF kill_switch
       THEN /\ run' = "run_disconnect"
            /\ UNCHANGED manager_vars
       ELSE /\ run' = run
            /\ Reset(None, NewBoard)
    /\ UNCHANGED <<am, main, connected, caller, bt, old, game, hsc, gd, lichess>>

\* NicLinkManager.run: self.disconnect(), raise ExitNicLink
RunDisconnect ==
    /\ Alive /\ run = "run_disconnect"
    /\ run' = "run_done"
    /\ connected' = FALSE
    /\ UNCHANGED <<manager_vars, am, main, game, hsc, gd, lichess, caller, bt, old>>

\* state_change_thread.is_alive()
WorkerAlive == hsc.by = "worker"
StartWorker(event) == [HscNone EXCEPT !.pc = "update", !.by = "worker",
                                      !.moves = event.moves]

\* Game.run: a gameState event
GameStateEvent ==
    /\ Alive /\ game.pc = "stream" /\ game.events < MaxEvents
    /\ \E event \in StateMenus(game.events + 1) :
          IF WorkerAlive
          THEN /\ game' = [game EXCEPT !.pc = "join", !.event = event,
                                       !.events = @ + 1]
               /\ hsc' = hsc
          ELSE /\ game' = [game EXCEPT !.events = @ + 1]
               /\ hsc' = StartWorker(event)
    /\ UNCHANGED <<manager_vars, am, main, run, connected, caller, bt, old, gd, lichess>>

\* Game.run: joining the state change thread, with check_for_game_over;
\* then the new thread
GameJoin ==
    /\ Alive /\ game.pc = "join"
    /\ IF ~WorkerAlive
       THEN /\ game' = [game EXCEPT !.pc = "stream", !.event = NoEvent]
            /\ hsc' = StartWorker(game.event)
            /\ gd' = gd
       ELSE /\ game.event.winner # "none" \/ game_over
            /\ hsc' = hsc
            /\ IF game.event.winner # "none"
               THEN /\ game' = [game EXCEPT !.pc = "game_done"]
                    /\ gd' = CallGameDone("game", game.event.winner)
               \* game_state["winner"]: KeyError
               ELSE /\ game' = [game EXCEPT !.pc = "dead"]
                    /\ gd' = gd
    /\ UNCHANGED <<manager_vars, am, main, run, connected, caller, bt, old, lichess>>

\* Game.run that returns at the end of the stream without game_done
GameStreamEndsQuietly ==
    /\ Alive /\ game.pc = "stream"
    /\ game' = [game EXCEPT !.pc = "dead"]
    /\ UNCHANGED <<manager_vars, am, main, run, connected, caller, bt, old, hsc, gd, lichess>>

\* Game.run: a gameFull event, another event or the end of the stream
GameStreamEnds ==
    /\ Alive /\ game.pc = "stream"
    /\ game' = [game EXCEPT !.pc = "game_done"]
    /\ gd' = CallGameDone("game", "None")
    /\ UNCHANGED <<manager_vars, am, main, run, connected, caller, bt, old, hsc, lichess>>

\* thread t takes steps
ThreadRuns(t) == Alive /\ (t = "main" => main.pc \in {"game_init", "game_done"})

\* handle_state_change that does not look at the outcome
HscUpdateNoOutcome ==
    /\ hsc.pc = "update" /\ ThreadRuns(hsc.by)
    /\ LET moves == hsc.moves
           tmp_chessboard == TmpBoards[moves]
       IN  /\ leds' = IF moves # <<>>
                      THEN LedMap(build_led_map_for_move(moves[Len(moves)]))
                      ELSE leds
           /\ last_move' = IF moves # <<>> THEN moves[Len(moves)] ELSE last_move
           /\ IF tmp_chessboard.turn = game.playing_white
              THEN /\ hsc' = [hsc EXCEPT !.pc = "get_move"]
                   /\ UNCHANGED <<game, main, am, gd>>
              ELSE HscReturns([game EXCEPT !.response_error = FALSE])
    /\ UNCHANGED <<game_board, starting_fen, signal_vars, run, connected, caller, bt, old, lichess>>

\* handle_state_change that asks the board for a move whoever is to move
HscUpdateAnyTurn ==
    /\ hsc.pc = "update" /\ ThreadRuns(hsc.by)
    /\ LET moves == hsc.moves
           result == Outcomes[moves]
       IN  /\ leds' = IF moves # <<>>
                      THEN LedMap(build_led_map_for_move(moves[Len(moves)]))
                      ELSE leds
           /\ last_move' = IF moves # <<>> THEN moves[Len(moves)] ELSE last_move
           /\ IF result.over
              THEN /\ hsc' = [hsc EXCEPT !.pc = "game_done"]
                   /\ gd' = CallGameDone(hsc.by, WinnerName(result))
                   /\ UNCHANGED <<game, main, am>>
              ELSE /\ hsc' = [hsc EXCEPT !.pc = "get_move"]
                   /\ UNCHANGED <<game, main, am, gd>>
    /\ UNCHANGED <<game_board, starting_fen, signal_vars, run, connected, caller, bt, old, lichess>>

\* handle_state_change: update_tmp_chessboard (the moves, the LEDs of the
\* last move, nl_inst.last_move), the outcome, whose turn it is
HscUpdate ==
    /\ hsc.pc = "update" /\ ThreadRuns(hsc.by)
    /\ LET moves == hsc.moves
           tmp_chessboard == TmpBoards[moves]
           result == Outcomes[moves]
       IN  /\ leds' = IF moves # <<>>
                      THEN LedMap(build_led_map_for_move(moves[Len(moves)]))
                      ELSE leds
           /\ last_move' = IF moves # <<>> THEN moves[Len(moves)] ELSE last_move
           /\ IF result.over
              THEN /\ hsc' = [hsc EXCEPT !.pc = "game_done"]
                   /\ gd' = CallGameDone(hsc.by, WinnerName(result))
                   /\ UNCHANGED <<game, main, am>>
              ELSE IF tmp_chessboard.turn = game.playing_white
              THEN /\ hsc' = [hsc EXCEPT !.pc = "get_move"]
                   /\ UNCHANGED <<game, main, am, gd>>
              ELSE HscReturns([game EXCEPT !.response_error = FALSE])
    /\ UNCHANGED <<game_board, starting_fen, signal_vars, run, connected, caller, bt, old, lichess>>

\* get_move_from_chessboard: set_game_board, the FEN of the board for the
\* log (the read may fail), and the thread of await_move_thread. One
\* await_move is followed at a time: the thread starts when the one before
\* it has ended
HscGetMove ==
    /\ hsc.pc = "get_move" /\ ThreadRuns(hsc.by)
    /\ am.pc = "idle"
    /\ game_board' = TmpBoards[hsc.moves]
    /\ \/ /\ hsc' = [hsc EXCEPT !.pc = "wait_move"]
          /\ am' = [am EXCEPT !.pc = "am_while"]
          /\ game' = [game EXCEPT !.awaiting = TRUE, !.fetched = NoFetch]
          /\ UNCHANGED <<main, gd>>
       \/ HscDies
    /\ UNCHANGED <<last_move, starting_fen, signal_vars, leds, run, connected, caller, bt, old,
                   lichess>>

\* await_move_thread: await_move has returned (the move, or None, goes to
\* the fetch list and has_moved is set) or raised
AwaitMoveThreadEnds ==
    /\ Alive /\ game.awaiting /\ am.pc = "returned"
    /\ am' = [AmIdle EXCEPT !.fen = am.fen]
    /\ game' = IF am.res.kind \in {"move", "None"}
               THEN [game EXCEPT !.awaiting = FALSE, !.has_moved = TRUE,
                                 !.fetched = [full |-> TRUE, move |-> am.res.move]]
               ELSE [game EXCEPT !.awaiting = FALSE]
    /\ UNCHANGED <<manager_vars, main, run, connected, caller, bt, old, hsc, gd, lichess>>

\* get_move_from_chessboard: the loop that waits for has_moved. With
\* game_over set check_for_game_over(self.current_state["state"]) reads
\* game_state["winner"] of the first state: KeyError
HscWaitMove ==
    /\ hsc.pc = "wait_move" /\ ThreadRuns(hsc.by)
    /\ game_over \/ game.has_moved
    /\ IF game_over
       THEN HscDies
       ELSE /\ hsc' = [hsc EXCEPT !.pc = "make_move", !.move = game.fetched.move]
            /\ game' = [game EXCEPT !.has_moved = FALSE]
            /\ UNCHANGED <<main, am, gd>>
    /\ UNCHANGED <<manager_vars, run, connected, caller, bt, old, lichess>>

\* make_move that calls game_done when the server answers "Not your turn"
HscMakeMoveNotYourTurnEnds ==
    /\ hsc.pc = "make_move" /\ ThreadRuns(hsc.by)
    /\ IF game_over \/ hsc.move = None
       THEN /\ HscReturns(game)
            /\ UNCHANGED lichess
       ELSE \E response \in ResponseMenu :
               /\ lichess' = [lichess EXCEPT
                                 !.moves = IF response = "ok"
                                           THEN Append(@, hsc.move) ELSE @,
                                 !.answer = response]
               /\ IF response = "ok"
                  THEN HscReturns([game EXCEPT !.response_error = FALSE])
                  ELSE IF response = "not your turn"
                  THEN /\ hsc' = [hsc EXCEPT !.pc = "game_done"]
                       /\ gd' = CallGameDone(hsc.by, "None")
                       /\ UNCHANGED <<game, main, am>>
                  ELSE IF game.response_error
                  THEN /\ game' = [game EXCEPT !.response_error = FALSE]
                       /\ hsc' = [hsc EXCEPT !.pc = "game_done",
                                             !.rejected = @ + 1]
                       /\ gd' = CallGameDone(hsc.by, "None")
                       /\ UNCHANGED <<main, am>>
                  ELSE /\ game' = [game EXCEPT !.response_error = TRUE]
                       /\ hsc' = [hsc EXCEPT !.rejected = @ + 1]
                       /\ UNCHANGED <<gd, main, am>>
    /\ UNCHANGED <<manager_vars, run, connected, caller, bt, old>>

\* make_move: the loop; the server accepts the move, or answers with one
\* of the two kinds of ResponseError
HscMakeMove ==
    /\ hsc.pc = "make_move" /\ ThreadRuns(hsc.by)
    /\ IF game_over \/ hsc.move = None
       THEN /\ HscReturns(game)
            /\ UNCHANGED lichess
       ELSE \E response \in ResponseMenu :
               /\ lichess' = [lichess EXCEPT
                                 !.moves = IF response = "ok"
                                           THEN Append(@, hsc.move) ELSE @,
                                 !.answer = response]
               /\ IF response = "ok"
                  THEN HscReturns([game EXCEPT !.response_error = FALSE])
                  ELSE IF response = "not your turn"
                  THEN HscReturns(game)
                  ELSE IF game.response_error
                  THEN /\ game' = [game EXCEPT !.response_error = FALSE]
                       /\ hsc' = [hsc EXCEPT !.pc = "game_done",
                                             !.rejected = @ + 1]
                       /\ gd' = CallGameDone(hsc.by, "None")
                       /\ UNCHANGED <<main, am>>
                  ELSE /\ game' = [game EXCEPT !.response_error = TRUE]
                       /\ hsc' = [hsc EXCEPT !.rejected = @ + 1]
                       /\ UNCHANGED <<gd, main, am>>
    /\ UNCHANGED <<manager_vars, run, connected, caller, bt, old>>

\* game_done: the chess clock, nl_inst.game_over.set(), beep,
\* gameover_lights
GameDoneSignal(t) ==
    /\ gd[t].pc = "signal" /\ ThreadRuns(t)
    /\ lichess' = IF game.chess_clock
                  THEN [lichess EXCEPT !.clock = Append(@, ClockCall(gd[t].winner))]
                  ELSE lichess
    /\ game_over' = TRUE
    /\ leds' = LedsGameOver
    /\ gd' = [gd EXCEPT ![t].pc = "raise"]
    /\ game' = IF t = hsc.by /\ hsc.pc = "game_done" /\ Outcomes[hsc.moves].over
               THEN [game EXCEPT !.terminal = hsc.moves]
               ELSE game
    /\ UNCHANGED <<game_board, last_move, starting_fen, kill_switch, start_game,
                   has_moved, am, main, run, connected, caller, bt, old, hsc>>

\* game_done: after the sleep, turn_off_all_leds and raise NicLinkGameOver.
\* It ends a thread of the Game; in main() the handler calls handle_resign
\* again, where `game` is not bound when Game.__init__ raised, and where
\* the second NicLinkGameOver is raised in the handler
GameDoneRaise(t) ==
    /\ gd[t].pc = "raise" /\ ThreadRuns(t)
    /\ leds' = LedsOff
    /\ IF t = "worker"
       THEN /\ hsc' = HscNone
            /\ gd' = [gd EXCEPT ![t] = GdNone]
            /\ UNCHANGED <<game, main, am>>
       ELSE IF t = "game"
       THEN /\ game' = [game EXCEPT !.pc = "dead"]
            /\ gd' = [gd EXCEPT ![t] = GdNone]
            /\ UNCHANGED <<hsc, main, am>>
       ELSE IF game.pc = "init" \/ main.resigned
       THEN ProcessEnds("crash")
       ELSE /\ main' = [main EXCEPT !.resigned = TRUE]
            /\ gd' = CallGameDone("main", "None")
            /\ UNCHANGED <<hsc, game, am>>
    /\ UNCHANGED <<game_board, last_move, starting_fen, signal_vars, run,
                   connected, caller, bt, old, lichess>>

\* a game session: Game.__init__ in the main thread, then the thread of
\* the Game with its stream, its state change threads and await_move
NextSession ==
    \/ MainGameStart \/ MainSkipped \/ MainFirstMove
    \/ GameStateEvent \/ GameJoin \/ GameStreamEnds
    \/ HscUpdate \/ HscGetMove \/ AwaitMoveThreadEnds \/ HscWaitMove
    \/ HscMakeMove
    \/ \E t \in Threads : GameDoneSignal(t)
    \/ \E t \in Threads : GameDoneRaise(t)
    \/ AmWhile \/ AmGameOver \/ CfmReadFen \/ CfmPop \/ CfmCompare
    \/ CfmGameOver \/ CfmFind \/ CfmExcept \/ CfmReturn \/ AmGetLast

SpecSession == Init /\ [][NextSession]_vars

\* the orchestrator: the event loop of main() with a Game it starts, the
\* thread of NicLinkManager.run, KeyboardInterrupt and the end of the process
NextMain ==
    \/ MainGameStart \/ MainSkipped \/ MainFirstMove \/ MainGameFull
    \/ MainKeyboardInterrupt \/ MainExit
    \/ RunWhile \/ RunDisconnect
    \/ HscUpdate \/ HscGetMove \/ AwaitMoveThreadEnds \/ HscWaitMove
    \/ HscMakeMove
    \/ \E t \in Threads : GameDoneSignal(t)
    \/ \E t \in Threads : GameDoneRaise(t)
    \/ AmWhile \/ AmGameOver \/ CfmReadFen \/ CfmPop \/ CfmCompare
    \/ CfmGameOver \/ CfmFind \/ CfmExcept \/ CfmReturn \/ AmGetLast

SpecMain == Init /\ [][NextMain]_vars

\* main(): the gameFull event arrives while a session is active, its Game
\* waiting for the first gameState event of its stream
MainGameFullInSession ==
    /\ game.pc = "stream" /\ game.events = 0
    /\ MainGameFull

\* a game session and the event loop of main() beside it
NextGameFull == NextSession \/ MainGameFullInSession

SpecGameFull == Init /\ [][NextGameFull]_vars

\* ------------------------------------------------------------------------
\* A gameStart event while a Game exists: handle_game_start builds the next
\* Game whatever the one before is doing
\* ------------------------------------------------------------------------
\* how many Games main() builds after the first
MaxNextGames == 1
\* the thread of the Game is running
StreamRuns == game.pc \in {"stream", "join", "game_done"}
\* a call of await_move has begun and has neither returned nor raised
AwaitInProgress == am.pc \notin {"idle", "returned"}

\* when the further gameStart event arrives: while the Game before waits
\* for the move of the local player, or after its stream has given all its
\* events and its threads have ended
NextGameArrives ==
    \/ game.pc = "stream" /\ hsc.by = "worker" /\ hsc.pc = "wait_move"
    \/ /\ game.pc = "dead" /\ game.events = MaxEvents
       /\ hsc.by = "none" /\ am.pc = "idle"

\* main(): a gameStart event after handle_game_start has returned from an
\* earlier one. The global `game` is bound to the new Game, whose __init__
\* resets the manager and makes the first move or handles the first state;
\* the threads of the Game before are neither joined nor told. Of them the
\* await_move is followed from here on, for being in progress, and the
\* stream thread, for the game_done it may call
MainNextGameStart ==
    /\ main.pc = "events" /\ game.pc \notin {"none", "init"}
    /\ old.games < MaxNextGames
    /\ NextGameArrives
    /\ \E correspondence \in BOOLEAN, ongoing \in OngoingMenu :
          IF ~correspondence /\ is_correspondence(ongoing)
          THEN /\ main' = [main EXCEPT !.pc = "skipped"]
               /\ UNCHANGED <<manager_vars, am, game, hsc, gd, old>>
          ELSE /\ \E playing_white \in BOOLEAN, chess_clock \in BOOLEAN,
                     moves \in FirstStateMenu :
                     \* MaxEvents bounds the events of the two streams
                     \* together
                     /\ game' = [GameNone EXCEPT !.pc = "init",
                                                 !.playing_white = playing_white,
                                                 !.chess_clock = chess_clock,
                                                 !.events = game.events]
                     /\ IF playing_white /\ moves = <<>>
                        THEN /\ main' = [main EXCEPT !.pc = "first_move"]
                             /\ am' = [AmIdle EXCEPT !.pc = "am_while"]
                             /\ hsc' = HscNone
                        ELSE /\ main' = [main EXCEPT !.pc = "game_init"]
                             /\ am' = AmIdle
                             /\ hsc' = [HscNone EXCEPT !.pc = "update",
                                                       !.by = "main",
                                                       !.moves = moves]
               /\ old' = [await |-> AwaitInProgress, stream |-> StreamRuns,
                           games |-> old.games + 1]
               /\ gd' = [gd EXCEPT !["game"] = GdNone, !["worker"] = GdNone]
               /\ Reset(None, NewBoard)
    /\ UNCHANGED <<run, connected, caller, bt, lichess>>

\* the await_move of the Game before returns or raises
OldAwaitEnds ==
    /\ Alive /\ old.await
    /\ old' = [old EXCEPT !.await = FALSE]
    /\ UNCHANGED <<manager_vars, am, main, run, connected, game, hsc, gd,
                   lichess, caller, bt>>

\* the stream thread of the Game before reads a gameState with a winner:
\* check_for_game_over calls game_done, which tells the clock, sets
\* nl_inst.game_over (the Event of the manager as it is now), shows and
\* turns off the LEDs and raises: the thread ends. It is followed while the
\* Game that replaced it waits for a move of the local player
OldGameDone ==
    /\ Alive /\ old.stream
    /\ main.pc = "first_move" \/ hsc.pc = "wait_move"
    \* the Game before had a clock or had none
    /\ \E chess_clock \in BOOLEAN :
          lichess' = IF chess_clock
                     THEN [lichess EXCEPT !.clock = Append(@, ClockCall("white"))]
                     ELSE lichess
    /\ game_over' = TRUE
    /\ leds' = LedsOff
    /\ old' = [old EXCEPT !.stream = FALSE]
    /\ UNCHANGED <<game_board, last_move, starting_fen, kill_switch, start_game,
                   has_moved, am, main, run, connected, game, hsc, gd, caller,
                   bt>>

NextGames == NextSession \/ MainNextGameStart \/ OldAwaitEnds \/ OldGameDone

SpecGames == Init /\ [][NextGames]_vars

\* ------------------------------------------------------------------------
\* The manager shared by threads: await_move in one thread, the accessors
\* of game_board called from another
\* ------------------------------------------------------------------------
\* get_game_fen(): self.game_board.fen(), without the lock
SharedGetGameFen ==
    /\ Alive
    /\ caller' = [op |-> "get_game_fen", saw |-> game_board]
    /\ UNCHANGED <<manager_vars, am, main, run, connected, game, hsc, gd, lichess, bt, old>>

\* is_game_over(): the tests of self.game_board, without the lock
SharedIsGameOver ==
    /\ Alive
    /\ caller' = [op |-> "is_game_over", saw |-> game_board]
    /\ UNCHANGED <<manager_vars, am, main, run, connected, game, hsc, gd, lichess, bt, old>>

\* check_game_board_against_external(): self.game_board.board_fen(),
\* without the lock
SharedCheckAgainstExternal ==
    /\ Alive
    /\ caller' = [op |-> "check_game_board_against_external", saw |-> game_board]
    /\ UNCHANGED <<manager_vars, am, main, run, connected, game, hsc, gd, lichess, bt, old>>

\* set_game_board(board): `with self.lock: self.game_board = board`; the
\* lock is free whenever it is asked for, check_for_move takes it only for
\* its return
SharedSetGameBoard ==
    /\ Alive
    /\ \E b \in BoardMenu : game_board' = b
    /\ caller' = [op |-> "set_game_board", saw |-> NoBoard]
    /\ UNCHANGED <<last_move, starting_fen, signal_vars, leds, am, main, run,
                   connected, game, hsc, gd, lichess, bt, old>>

NextShared ==
    \/ AmWhile \/ AmGameOver \/ CfmReadFen \/ CfmPop \/ CfmCompare
    \/ CfmGameOver \/ CfmFind \/ CfmExcept \/ CfmReturn \/ AmGetLast
    \/ CallAwaitMove \/ AwaitMoveReturns
    \/ SharedGetGameFen \/ SharedIsGameOver \/ SharedCheckAgainstExternal
    \/ SharedSetGameBoard

SpecShared == Init /\ [][NextShared]_vars

\* ------------------------------------------------------------------------
\* The manager between games: reset() after whatever its callers did
\* ------------------------------------------------------------------------
\* nl_inst.reset(), by a caller that keeps the game_board it replaced
CallerReset ==
    /\ Reset(None, NewBoard)
    /\ caller' = [op |-> "reset", saw |-> game_board]
    /\ UNCHANGED <<am, main, run, connected, game, hsc, gd, lichess, bt, old>>

NextReset ==
    \/ CallerReset \/ CallSetGameBoard \/ CallStart960 \/ CallOpponentMoved
    \/ SetGameOver \/ SetKillSwitch

SpecReset == Init /\ [][NextReset]_vars

\* ------------------------------------------------------------------------
\* The thread of NicLinkManager.run beside the callers of the manager: the
\* loop sleeps and looks again for as long as the process runs
\* ------------------------------------------------------------------------
NextRun ==
    \/ RunWhile \/ RunDisconnect
    \/ CallerReset \/ CallSetGameBoard \/ CallStart960 \/ CallOpponentMoved
    \/ SetGameOver \/ SetKillSwitch

SpecRun ==
    Init /\ [][NextRun]_vars /\ WF_vars(RunWhile) /\ WF_vars(RunDisconnect)

\* ------------------------------------------------------------------------
\* The bluetooth reader: board_fen called with a snapshot
\* ------------------------------------------------------------------------
CallBoardFen ==
    /\ bt = BtNone
    /\ \E n \in 1..12 : \E data \in SnapshotMenu(n) :
          bt' = [data |-> data, fen |-> board_fen(data)]
    /\ UNCHANGED <<manager_vars, am, main, run, connected, game, hsc, gd,
                   lichess, caller, old>>

NextBluetooth == CallBoardFen

SpecBluetooth == Init /\ [][NextBluetooth]_vars

\* ------------------------------------------------------------------------
\* The bluetooth reader: leds called with a snapshot
\* ------------------------------------------------------------------------
CallLeds ==
    /\ bt = BtNone
    /\ \E n \in 1..12 : \E data \in SnapshotMenu(n) :
          bt' = [data |-> data, fen |-> <<>>, led |-> led_frame(data)]
    /\ UNCHANGED <<manager_vars, am, main, run, connected, game, hsc, gd,
                   lichess, caller, old>>

NextLeds == CallLeds

SpecLeds == Init /\ [][NextLeds]_vars

\* ------------------------------------------------------------------------
\* The verdict of the manager: is_game_over called on a board of a game
\* ------------------------------------------------------------------------
\* chess.Board.is_checkmate, is_stalemate
is_checkmate(b) == InCheck(b.pl, b.turn) /\ LegalMoves(b) = {}
is_stalemate(b) == ~InCheck(b.pl, b.turn) /\ LegalMoves(b) = {}
\* the value False that is_game_over returns
NotOver == [over |-> FALSE]
\* is_game_over(): the tests in the order of the code; "winner" is
\* self.game_board.turn for a checkmate and False for every draw
is_game_over(b) ==
    IF is_checkmate(b)
    THEN [over |-> TRUE, winner |-> b.turn, reason |-> "checkmate"]
    ELSE IF is_stalemate(b)
    THEN [over |-> TRUE, winner |-> FALSE, reason |-> "Is a stalemate"]
    ELSE IF IsInsufficientMaterial(b.pl)
    THEN [over |-> TRUE, winner |-> FALSE, reason |-> "Is insufficient material"]
    ELSE IF Occurrences(b, b.pl, b.turn) >= Fivefold
    THEN [over |-> TRUE, winner |-> FALSE, reason |-> "Is fivefold repetition."]
    ELSE IF HalfmoveClock(b) >= SeventyFiveMoves
    THEN [over |-> TRUE, winner |-> FALSE, reason |-> "seventy-five moves"]
    ELSE NotOver

\* the games whose positions the manager is asked about
GamesMenu == {FoolsMate, ScholarsMate, LoydStalemate, LoneKnightGame,
              FivefoldGame, NoProgressGame}
\* the boards of a game: after none, some or all of its moves
Positions(g) ==
    {update_tmp_chessboard(SubSeq(g, 1, n)) : n \in 0..Len(g)}

\* nl_inst.set_game_board(board), the board of a game after some of its moves
CallerSetPosition ==
    /\ caller = CallerIdle /\ game_board = NewBoard
    /\ \E g \in GamesMenu : \E b \in Positions(g) :
          game_board' = b
    /\ UNCHANGED <<last_move, starting_fen, signal_vars, leds, am, main, run,
                   connected, game, hsc, gd, lichess, caller, bt, old>>

\* nl_inst.is_game_over(): it reads game_board and returns its verdict
CallerIsGameOver ==
    /\ caller = CallerIdle
    /\ caller' = [op |-> "is_game_over", saw |-> game_board,
                  res |-> is_game_over(game_board)]
    /\ UNCHANGED <<manager_vars, am, main, run, connected, game, hsc, gd,
                   lichess, bt, old>>

NextVerdict == CallerSetPosition \/ CallerIsGameOver

SpecVerdict == Init /\ [][NextVerdict]_vars

\* ------------------------------------------------------------------------
\* The LEDs of a move: opponent_moved called with a move in UCI
\* ------------------------------------------------------------------------
\* the promotion suffix of a UCI move, or none
PromoSuffixes == {<<>>, <<"q">>, <<"r">>, <<"b">>, <<"n">>}
\* the UCI moves between two distinct squares
UciMenu ==
    {SquareName(m[1]) \o SquareName(m[2]) \o m[3] :
        m \in {x \in Squares \X Squares \X PromoSuffixes : x[1] # x[2]}}

\* nl_inst.opponent_moved(move): self.last_move = move, then
\* set_move_leds(move), which builds the map and hands it to set_all_leds
CallerOpponentMoved ==
    /\ caller = CallerIdle
    /\ \E move \in UciMenu :
          /\ last_move' = move
          /\ leds' = LedMap(build_led_map_for_move(move))
    /\ caller' = [op |-> "opponent_moved", saw |-> NoBoard]
    /\ UNCHANGED <<game_board, starting_fen, signal_vars, am, main, run,
                   connected, game, hsc, gd, lichess, bt, old>>

NextMoveLeds == CallerOpponentMoved

SpecMoveLeds == Init /\ [][NextMoveLeds]_vars

\* ------------------------------------------------------------------------
\* The LEDs of a difference: show_board_diff called with the board that
\* stands on the squares and the game board
\* ------------------------------------------------------------------------
\* the placement with the pieces of the squares S taken off
Lifted(pl, S) == [s \in Squares |-> IF s \in S THEN Empty ELSE pl[s]]
\* the boards that may stand against the game board b: one piece or two
\* taken off, or one legal move made
DiffMenu(b) ==
    {b.pl}
    \cup {Lifted(b.pl, {s, t}) : s, t \in {q \in Squares : b.pl[q] # Empty}}
    \cup {Moved(b.pl, m) : m \in LegalMoves(b)}

\* self.show_board_diff(error_board, self.game_board): error_board is a
\* chess.Board() given the placement seen
CallerShowBoardDiff ==
    /\ caller = CallerIdle
    /\ \E board1 \in DiffMenu(game_board) :
          /\ leds' = show_board_diff(board1, game_board.pl, last_move, leds)
          /\ caller' = [op |-> "show_board_diff",
                        saw |-> [pl |-> board1, turn |-> WHITE, stack |-> <<>>]]
    /\ UNCHANGED <<game_board, last_move, starting_fen, signal_vars, am, main,
                   run, connected, game, hsc, gd, lichess, bt, old>>

NextBoardDiff == CallerShowBoardDiff \/ CallSetGameBoard \/ CallOpponentMoved

SpecBoardDiff == Init /\ [][NextBoardDiff]_vars

\* ------------------------------------------------------------------------
\* The LED calls given a square: square_cords, set_led and set_move_leds
\* called with names whose file letter may lie outside a..h
\* ------------------------------------------------------------------------
FileLetterMenu == {"a", "b", "c", "d", "e", "f", "g", "h", "i", "z", "A"}
SquareMenu == {<<f, d>> : f \in FileLetterMenu, d \in {DIGITS[i] : i \in 1..8}}
ValidFile(square) == \E i \in 1..8 : FILES[i] = square[1]

\* square_cords(square): the pair, or ValueError
CallerSquareCords ==
    /\ caller = CallerIdle
    /\ \E square \in SquareMenu :
          caller' = [op |-> "square_cords", saw |-> NoBoard, arg |-> square,
                     exc |-> IF square_cords(square).found THEN ""
                             ELSE "ValueError",
                     res |-> IF square_cords(square).found
                             THEN <<square_cords(square).file,
                                    square_cords(square).rank>>
                             ELSE None]
    /\ UNCHANGED <<manager_vars, am, main, run, connected, game, hsc, gd,
                   lichess, bt, old>>

\* nl_inst.set_led(square, status)
CallerSetLed ==
    /\ caller = CallerIdle
    /\ \E square \in SquareMenu, status \in BOOLEAN :
          LET r == set_led(square, status, leds)
          IN  /\ leds' = r.leds
              /\ caller' = [op |-> "set_led", saw |-> NoBoard,
                            arg |-> square, exc |-> r.exc, res |-> None]
    /\ UNCHANGED <<game_board, last_move, starting_fen, signal_vars, am, main,
                   run, connected, game, hsc, gd, lichess, bt, old>>

\* nl_inst.set_move_leds(move)
CallerSetMoveLeds ==
    /\ caller = CallerIdle
    /\ \E s1, s2 \in SquareMenu :
          LET r == set_move_leds(s1 \o s2, leds)
          IN  /\ s1 # s2
              /\ leds' = r.leds
              /\ caller' = [op |-> "set_move_leds", saw |-> NoBoard,
                            arg |-> s1 \o s2, exc |-> r.exc, res |-> None]
    /\ UNCHANGED <<game_board, last_move, starting_fen, signal_vars, am, main,
                   run, connected, game, hsc, gd, lichess, bt, old>>

NextLedCalls ==
    CallerSquareCords \/ CallerSetLed \/ CallerSetMoveLeds \/ CallOpponentMoved

SpecLedCalls == Init /\ [][NextLedCalls]_vars

\* ------------------------------------------------------------------------
\* Properties of move inference (find_move_from_fen_change)
\* ------------------------------------------------------------------------
\* the move m, made on board b, gives the position that the FEN describes
Reproduces(b, m, fen) == Push(b, m).pl = ParseBoardFen(fen)
\* find_move_from_fen_change runs in this step
FindStep == am.pc = "cfm_find" /\ am'.pc # "cfm_find"
\* ... and the board answered the get_fen() of its debug message
FindAnswered == FindStep /\ ~(am'.pc = "cfm_exc" /\ am'.exc.kind = "NoNicLinkFen")

C3_SamePositionIsNoMove ==
    [][(FindStep /\ am.fen = BoardFen(game_board.pl))
       => /\ am'.pc = "cfm_exc"
          /\ am'.exc.kind = "NoMove"
          /\ ~am'.exc.enumerated
          /\ game_board' = game_board
          /\ last_move' = last_move]_vars
\* NoMove is in flight, on a board that has a move to pop and push back
C3_Witness ==
    /\ Alive /\ am.pc = "cfm_exc"
    /\ am.exc.kind = "NoMove"
    /\ game_board = AfterE4
    /\ am.fen = BoardFen(AfterE4.pl)

\* ------------------------------------------------------------------------
\* Properties of check_for_move and await_move
\* ------------------------------------------------------------------------
\* C4: when await_move returns a move m, game_board shows the position the
\* physical board reported and m is the last move of its move stack.
C4_ReturnedMoveIsOnGameBoard ==
    (am.pc = "returned" /\ am.res.kind = "move")
    => /\ BoardFen(game_board.pl) = am.fen
       /\ game_board.stack # <<>>
       /\ Uci(game_board.stack[Len(game_board.stack)]) = am.res.move

C6_CheckForMoveIsIdempotent ==
    am.called
    => /\ (am.pc # "cfm_cmp" => game_board = am.board0)
       /\ (am.same => last_move = am.lm0)
\* a second call has read the position before the last move, as the first
\* did: it has popped the move, pushed it back and returned False
C6_Witness ==
    /\ am.called
    /\ am.same
    /\ Alive /\ am.pc = "am_while"
    /\ game_board = AfterE4
    /\ am.fen = BoardFen(StartPl)
    /\ last_move # None

\* the program counters of one iteration of await_move's loop
InIteration == {"am_over", "cfm_fen", "cfm_pop", "cfm_cmp", "cfm_over",
                "cfm_find", "cfm_exc", "cfm_ret", "am_last"}

\* C7: once game_over is set, await_move finishes at most the iteration in
\* progress: the game-over check that opens every iteration returns None,
\* no check_for_move begins without that check having seen game_over unset,
\* and an iteration ends at the loop condition or with the call.
C7_GameOverStopsPolling ==
    /\ [][(am.pc = "am_over" /\ game_over /\ am' # am)
          => (am'.pc = "returned" /\ am'.res = Result("None", None))]_vars
    /\ [][(am'.pc = "cfm_fen" /\ am.pc # "cfm_fen")
          => (am.pc = "am_over" /\ ~game_over)]_vars
    /\ [][(am.pc \in InIteration /\ am'.pc \notin InIteration)
          => am'.pc \in {"am_while", "returned"}]_vars
\* game_over was set during an iteration, which has ended; the kill switch
\* is not set
C7_Witness ==
    /\ Alive /\ am.pc = "am_while"
    /\ am.called
    /\ game_over
    /\ ~kill_switch

\* C8: once kill_switch is set, await_move finishes at most the iteration
\* in progress: the loop condition that opens every iteration then raises
\* ExitNicLink, and a move or None is returned only from inside an iteration
\* whose loop condition saw the kill switch unset.
C8_KillSwitchEndsAwaitMove ==
    /\ [][(am.pc = "am_while" /\ kill_switch /\ am' # am)
          => (am'.pc = "returned" /\ am'.res = Result("ExitNicLink", None))]_vars
    /\ [][(am'.pc = "am_over" /\ am.pc # "am_over")
          => (am.pc = "am_while" /\ ~kill_switch)]_vars
    /\ [][(am'.pc = "returned" /\ am.pc # "returned"
           /\ am'.res.kind \in {"move", "None"})
          => am.pc \in {"am_last", "am_over"}]_vars
\* the kill switch was set during an iteration, and await_move has raised
\* ExitNicLink at its next loop condition
C8_Witness ==
    /\ am.pc = "returned"
    /\ am.res.kind = "ExitNicLink"
    /\ am.fen # <<>>
    /\ kill_switch
\* a thread leaves handle_state_change's first part (the moves replayed,
\* the outcome looked at) with the process alive
HscStep == hsc.pc = "update" /\ hsc'.pc # "update" /\ main'.pc = main.pc

\* C9: once kill_switch is set the run loop of the manager leaves its loop
\* and disconnects the board before the program terminates: when the
\* process has ended with kill_switch set, the board is disconnected.
C9_DisconnectBeforeExit ==
    (main.pc = "exited" /\ kill_switch) => ~connected

\* C10: when handle_state_change processes a move list that ends in a
\* terminal position (checkmate, stalemate, insufficient material, fivefold
\* repetition, 75 moves) it calls game_done, having started no await_move
\* and submitted nothing; game_done sets game_over; and after game_done the
\* thread goes on to neither wait for a move nor submit one.
C10_TerminalStateEndsTheGame ==
    [][/\ (HscStep /\ Outcome(update_tmp_chessboard(hsc.moves)).over)
          => /\ hsc'.pc = "game_done"
             /\ gd'[hsc.by].pc = "signal"
             /\ am' = am /\ lichess' = lichess /\ game' = game
       /\ (hsc.pc = "game_done" /\ Alive')
          => /\ hsc'.pc \in {"game_done", "none"}
             /\ lichess'.moves = lichess.moves
       /\ \A t \in Threads :
             (gd[t].pc = "signal" /\ gd'[t].pc = "raise") => game_over'
      ]_vars

C10_Witness ==
    /\ hsc.pc = "game_done" /\ hsc.by = "worker"
    /\ hsc.moves = NoProgressGame
    /\ Outcomes[hsc.moves].termination = "seventyfive_moves"
    /\ gd["worker"] = [pc |-> "raise", winner |-> "no winner"]
    /\ game_over
    /\ am.pc = "idle" /\ lichess.moves = <<>>

\* ------------------------------------------------------------------------
\* Properties of the end of a game
\* ------------------------------------------------------------------------
\* thread t passes the first part of game_done: the chess clock,
\* game_over.set(), the beep and the lights
SignalStep(t) == gd[t].pc = "signal" /\ gd'[t].pc = "raise"
\* the thread in handle_state_change found a terminal position and is in
\* the game_done it called for it
TerminalDetected == hsc.pc = "game_done" /\ Outcomes[hsc.moves].over

\* C11: when handle_state_change detects a terminal position, the
\* notification game_done gives the chess clock names the winner: white_won
\* for a checkmate won by White, black_won for one won by Black, game_over
\* for a draw.
C11_ClockIsToldTheWinner ==
    [][(TerminalDetected /\ SignalStep(hsc.by) /\ game.chess_clock)
       => lichess'.clock =
             Append(lichess.clock,
                    CASE Outcomes[hsc.moves].winner = "white" -> "white_won"
                      [] Outcomes[hsc.moves].winner = "black" -> "black_won"
                      [] OTHER -> "game_over")]_vars

\* thread t of the session is handling a state update with the move list
\* of the terminal update the session has processed: the worker is at the
\* start of handle_state_change, or Game.run is joining the worker before
\* it
SecondIdentical(t) ==
    /\ game.terminal # <<>>
    /\ IF t = "worker"
       THEN hsc.by = "worker" /\ hsc.pc = "update" /\ hsc.moves = game.terminal
       ELSE game.pc = "join" /\ game.event.moves = game.terminal

\* C12: a session signals game-over once: after it has processed a terminal
\* state update, a second identical state update on the same stream is a
\* no-op; neither the stream thread nor the worker started for it calls
\* game_done again (no clock notification, game_over.set(), beep or lights).
C12_SecondIdenticalEventIsNoOp ==
    [][\A t \in {"game", "worker"} :
          SecondIdentical(t) => ~(gd[t].pc = "no" /\ gd'[t].pc = "signal")]_vars

\* game_done has been called for the session, by its stream thread or by
\* one of its workers: the call is in progress, or it has set game_over
Invoked ==
    /\ game.pc \in {"stream", "join", "game_done", "dead"}
    /\ game_over \/ gd["game"].pc # "no" \/ gd["worker"].pc # "no"

\* C13: termination is one-directional: once game_done has been called for
\* a session, its run loop dispatches no further stream event, no new
\* state change worker starts, no await_move is started and no move is
\* submitted.
C13_TerminationIsOneDirectional ==
    [][Invoked
       => /\ game'.events = game.events
          /\ ~(hsc.by # "worker" /\ hsc'.by = "worker")
          /\ ~(~game.awaiting /\ game'.awaiting)
          /\ lichess'.moves = lichess.moves]_vars

\* ------------------------------------------------------------------------
\* Properties of make_move
\* ------------------------------------------------------------------------
\* the server answers a submission of make_move with a transient error
TransientRejection == hsc.pc = "make_move" /\ hsc'.rejected = hsc.rejected + 1

\* C14: after one transient rejection make_move keeps the move and tries it
\* again; game_done is called after the second transient rejection in a row
\* and not after the first; the same move is never submitted a third time.
C14_TwoRejectionsEndTheSession ==
    [][TransientRejection
       => /\ hsc'.move = hsc.move
          /\ hsc'.rejected = 1 => (hsc'.pc = "make_move" /\ gd' = gd)
          /\ hsc'.rejected = 2 => (/\ hsc'.pc = "game_done"
                                   /\ gd'[hsc.by].pc = "signal")
          /\ hsc'.rejected <= 2]_vars

\* the server answers a submission of make_move with "Not your turn, or
\* game already over"
NotYourTurn ==
    /\ hsc.pc = "make_move" /\ ~game_over /\ hsc.move # None
    /\ hsc' # hsc
    /\ lichess'.answer = "not your turn"

OurTurn ==
    /\ ~Outcomes[hsc.moves].over
    /\ TmpBoards[hsc.moves].turn = game.playing_white
\* ... with the other colour to move
TheirTurn ==
    /\ ~Outcomes[hsc.moves].over
    /\ TmpBoards[hsc.moves].turn # game.playing_white

\* C16: handle_state_change awaits a move from the board and submits it
\* only when the position after the event's moves is not terminal and the
\* local colour is to move: a thread that is getting, waiting for or
\* submitting a move is in that case, and only such a thread starts
\* await_move or submits. When the opponent is to move it returns, having
\* started no await_move and submitted nothing; the last move of the list
\* is recorded as last_move.
C16_MoveOnlyOnOurTurn ==
    /\ [](hsc.pc \in {"get_move", "wait_move", "make_move"} => OurTurn)
    /\ [][/\ (~game.awaiting /\ game'.awaiting) => hsc.pc = "get_move"
          /\ lichess'.moves # lichess.moves => hsc.pc = "make_move"
          /\ (hsc.pc = "update" /\ hsc'.pc # "update" /\ TheirTurn)
             => /\ hsc' = HscNone
                /\ am' = am /\ gd' = gd
                /\ lichess' = lichess
                /\ game'.awaiting = game.awaiting
                /\ hsc.moves # <<>> => last_move' = hsc.moves[Len(hsc.moves)]
         ]_vars
\* playing White, the session joined after 1.e4 and then received a state
\* update with the same moves: its worker has returned; no position was
\* read from the board and nothing was sent to the server
C16_Witness ==
    /\ game.pc = "stream" /\ game.events = 1 /\ game.playing_white
    /\ hsc = HscNone
    /\ last_move = E2E4
    /\ am = AmIdle
    /\ lichess.moves = <<>> /\ lichess.answer = "none"
    /\ ~game_over

\* ------------------------------------------------------------------------
\* Properties of Game.run
\* ------------------------------------------------------------------------
\* C17: on a gameFull event, on an event that is neither gameState nor
\* chatLine, and at the end of the stream, Game.run stops reading the
\* stream and runs game_done without a winner: game_done notifies the clock,
\* sets game_over and shows the game-over lights, then turns the LEDs off
\* and ends the thread; the thread takes no further event.
C17_StreamEndRunsGameDone ==
    [][/\ (game.pc = "stream" /\ game'.pc \notin {"stream", "join"})
          => /\ game'.pc = "game_done"
             /\ gd'["game"] = [pc |-> "signal", winner |-> "None"]
       /\ SignalStep("game")
          => /\ game_over'
             /\ leds' = LedsGameOver
             /\ game.chess_clock
                => lichess'.clock =
                      Append(lichess.clock, ClockCall(gd["game"].winner))
       /\ (gd["game"].pc = "raise" /\ gd'["game"].pc # "raise")
          => /\ leds' = LedsOff
             /\ game'.pc = "dead"
       /\ game.pc \in {"game_done", "dead"}
          => /\ game'.pc \in {"game_done", "dead"}
             /\ game'.events = game.events
             /\ ~(hsc.by # "worker" /\ hsc'.by = "worker")
      ]_vars
\* the stream ended before any move was submitted: the clock was told
\* game_over, game_over is set, the LEDs are off and the thread has ended
C17_Witness ==
    /\ game.pc = "dead" /\ game.chess_clock
    /\ lichess.clock = <<"game_over">> /\ lichess.answer = "none"
    /\ game_over
    /\ leds = LedsOff
    /\ \A t \in Threads : gd[t] = GdNone

\* ------------------------------------------------------------------------
\* Properties of the manager's lock
\* ------------------------------------------------------------------------
\* the steps that write game_board or last_move inside `with self.lock`:
\* set_game_board, called by get_move_from_chessboard or by another caller
LockedWrite == HscGetMove \/ CallSetGameBoard

\* C18: every write to game_board (replacing it, popping or pushing a move)
\* and to last_move, by the manager or by a game session, is made while
\* holding the manager's lock.
C18_WritesHoldTheLock ==
    [][(game_board' # game_board \/ last_move' # last_move)
       => LockedWrite]_vars

\* check_for_move has popped the last move of game_board and has not yet
\* pushed it back
Popped == am.pc = "cfm_cmp"

\* C19: a thread that calls get_game_fen, is_game_over,
\* check_game_board_against_external or set_game_board while check_for_move
\* runs in another thread never meets game_board with its last move popped:
\* no such call reads or replaces game_board between the pop and the push.
C19_NoTornGameBoard ==
    [][caller' # caller => ~Popped]_vars

\* ------------------------------------------------------------------------
\* Properties of the signals
\* ------------------------------------------------------------------------
\* the steps that call reset(): reset itself, start_960, Game.__init__ and
\* _run_game
ResetStep == CallReset \/ CallStart960 \/ MainGameStart \/ RunWhile

\* C20: game_over and kill_switch are monotonic: once set, each stays set,
\* so that every later read finds it set, until reset() replaces it; no
\* step other than a call of reset() takes either from set to unset.
C20_SignalsAreMonotonic ==
    [][((game_over /\ ~game_over') \/ (kill_switch /\ ~kill_switch'))
       => ResetStep]_vars
\* both signals are set, a check_for_move has run since, and await_move,
\* reading kill_switch at its loop condition, has found it set
C20_Witness ==
    /\ game_over /\ kill_switch
    /\ am.pc = "returned" /\ am.res.kind = "ExitNicLink"
    /\ am.fen # <<>>

\* ------------------------------------------------------------------------
\* Properties of reset
\* ------------------------------------------------------------------------
\* C21: after reset() returns, from any prior state, game_board is the
\* standard initial position with an empty move stack, starting_fen and
\* last_move are None, all LEDs are off, and game_over, kill_switch,
\* start_game and has_moved are unset
C21_ResetRestoresDefaults ==
    [][CallerReset =>
          /\ game_board' = NewBoard
          /\ game_board'.pl = StartPl /\ game_board'.stack = <<>>
          /\ starting_fen' = None
          /\ last_move' = None
          /\ leds' = LedsOff
          /\ ~game_over' /\ ~kill_switch' /\ ~start_game' /\ ~has_moved']_vars

\* reset() has returned: it replaced the board after 1.e4 that
\* set_game_board was given
C21_Witness ==
    /\ caller = [op |-> "reset", saw |-> AfterE4]
    /\ game_board = NewBoard /\ starting_fen = None /\ last_move = None
    /\ leds = LedsOff
    /\ ~game_over /\ ~kill_switch /\ ~start_game /\ ~has_moved

\* ------------------------------------------------------------------------
\* Properties of NicLinkManager.run
\* ------------------------------------------------------------------------
\* C22: whenever game_over is set during a game, the manager's run loop
\* eventually performs reset() (initial position, last move cleared, LEDs
\* off), without waiting for a next game to start. reset() replaces
\* game_over by a new Event, which is unset: while the loop runs, a
\* game_over that is set does not stay set
C22_GameOverLeadsToReset ==
    (game_over /\ run = "run_while") ~> (~game_over \/ run # "run_while")

\* ------------------------------------------------------------------------
\* Properties of the orchestrator (main, handle_game_start)
\* ------------------------------------------------------------------------
\* the game is filtered out: correspondence speed, and the option is off
Filtered(correspondence, ongoing) == ~correspondence /\ ongoing = "correspondence"

Forced == main.resigned /\ main.pc = "game_done"

\* C24: on a gameFull event received while a session is active, the
\* orchestrator forces that session's termination: game_over is set, and
\* the session's stream thread stops dispatching events and awaits or
\* submits no further move
C24_GameFullEndsTheSession ==
    [][/\ MainGameFullInSession => game_over'
       /\ Forced => /\ game_over
                    /\ game'.events = game.events
                    /\ ~(am.pc = "idle" /\ am'.pc = "am_while")
                    /\ lichess'.moves = lichess.moves]_vars

\* C25: a NicLinkGameOver that reaches the main loop of the orchestrator
\* is consumed there: the orchestrator keeps running and goes back to
\* waiting for events; a finished game never terminates the program
C25_GameOverIsConsumedByMain ==
    [][GameDoneRaise("main") => main'.pc # "exited"]_vars

\* ------------------------------------------------------------------------
\* Properties of board_fen
\* ------------------------------------------------------------------------
Decoded == bt # BtNone
\* where the delimiters of a string are
Slashes(fen) == {i \in 1..Len(fen) : fen[i] = "/"}
\* the rank segments of a string: what each delimiter ends, and what
\* follows the last delimiter, if anything does
RECURSIVE RankSegments(_)
RankSegments(fen) ==
    IF fen = <<>> THEN <<>>
    ELSE IF Slashes(fen) = {} THEN <<fen>>
    ELSE LET i == CHOOSE j \in Slashes(fen) : \A k \in Slashes(fen) : j <= k
         IN  <<SubSeq(fen, 1, i - 1)>> \o RankSegments(SubSeq(fen, i + 1, Len(fen)))
\* the squares a rank segment accounts for: one for a letter, the count
\* for a digit
RECURSIVE SegmentSquares(_)
SegmentSquares(seg) ==
    IF seg = <<>> THEN 0
    ELSE (IF IsDigit(seg[1]) THEN DigitVal(seg[1]) ELSE 1)
            + SegmentSquares(SubSeq(seg, 2, Len(seg)))

\* C26: for every snapshot whose nibbles are all in 0..12, board_fen is
\* deterministic and returns exactly 8 rank segments, and in each segment
\* the letters and the empty-square counts add up to exactly 8 squares
\* (every run of empty squares is counted, a run at the end of a rank too)
C26_EveryRankHasEightSquares ==
    Decoded =>
        /\ bt.fen = board_fen(bt.data)
        /\ Len(RankSegments(bt.fen)) = 8
        /\ \A k \in 1..Len(RankSegments(bt.fen)) :
              SegmentSquares(RankSegments(bt.fen)[k]) = 8

\* C27: in board_fen's output the ranks are separated by "/" and the final
\* rank has none: exactly 7 delimiters, and the string does not end with one
C27_SevenDelimitersNoneAtTheEnd ==
    Decoded =>
        /\ Cardinality(Slashes(bt.fen)) = 7
        /\ bt.fen[Len(bt.fen)] # "/"

\* the letters of a string, in its order
PieceLetters(fen) == SelectSeq(fen, LAMBDA ch : ch # "/" /\ ~IsDigit(ch))
\* the letters of the pieces in a snapshot: rank 8 first, each rank from
\* file a to file h
RECURSIVE SnapshotLetters(_, _)
SnapshotLetters(data, n) ==
    IF n = 64 THEN <<>>
    ELSE LET nibble == NibbleAt(data, n % 8, 7 - (n \div 8))
         IN  (IF nibble = 0 THEN <<>> ELSE <<convertDict[nibble]>>)
                \o SnapshotLetters(data, n + 1)

\* C28: board_fen decodes the squares in the device order (square k the
\* low nibble of byte k div 2 when k is even, the high nibble when odd),
\* maps nibble 0 to empty and 1..12 to q,k,b,p,n,R,P,r,B,N,Q,K, and emits
\* each rank from file a to file h, rank 8 first; the snapshot of the
\* starting position decodes to rnbqkbnr/pppppppp/8/8/8/8/PPPPPPPP/RNBQKBNR
C28_DeviceOrderAndStartPosition ==
    Decoded =>
        /\ PieceLetters(bt.fen) = SnapshotLetters(bt.data, 0)
        /\ bt.data = StartSnapshot => bt.fen = BoardFen(StartPl)

\* ------------------------------------------------------------------------
\* Properties of the LED maps
\* ------------------------------------------------------------------------
\* 8 rows of 8 characters, each "0" or "1"
IsLedMap(map) ==
    /\ DOMAIN map = 1..8
    /\ \A r \in 1..8 :
          /\ Len(map[r]) = 8
          /\ \A c \in 1..8 : map[r][c] \in {"0", "1"}
\* the squares a map lights: row rank - 1, column file index (a = 0)
Lit(map) == {s \in Squares : map[RankOf(s) + 1][FileOf(s) + 1] = "1"}
\* the origin and the destination of a UCI move
MoveSquares(move) ==
    {ParseSquare(SubSeq(move, 1, 2)), ParseSquare(SubSeq(move, 3, 4))}

\* C29: for every UCI move between two distinct squares, with a promotion
\* suffix or without, the map that build_led_map_for_move returns has 8
\* rows of exactly 8 characters, "1" in exactly two cells, the cell of row
\* rank - 1 and column file index of the origin and that of the
\* destination, and "0" in every other cell; a move along a rank and a
\* move between ranks are laid out from the same corner.
C29_MoveMapLightsOriginAndDestination ==
    caller.op = "opponent_moved" =>
        /\ leds.cmd = "map"
        /\ IsLedMap(leds.map)
        /\ Lit(leds.map) = MoveSquares(last_move)
        /\ Cardinality(Lit(leds.map)) = 2
\* opponent_moved("e1g1"), a move along the first rank: e1 and g1 are lit
C29_Witness ==
    /\ caller.op = "opponent_moved"
    /\ last_move = <<"e", "1", "g", "1">>
    /\ leds.cmd = "map"
    /\ leds.map[1] = <<"0", "0", "0", "0", "1", "0", "1", "0">>
    /\ \A r \in 2..8 : leds.map[r] = ZerosStr

\* the squares show_board_diff is to light: those whose occupant differs
\* and that are not squares of last_move
DiffSquares(pl1, pl2, lm) ==
    {s \in Squares : pl1[s] # pl2[s] /\ ~square_in_last_move(lm, SquareName(s))}

\* C30: show_board_diff(board1, board2) displays a map that lights exactly
\* the squares, of all 64, whose occupant differs between the two boards
\* and that are not squares of last_move, several of one rank included
\* (stated for calls where there is such a square).
C30_DiffLightsEveryDifferingSquare ==
    [][CallerShowBoardDiff =>
          LET D == DiffSquares(caller'.saw.pl, game_board.pl, last_move)
          IN  D # {} =>
                  /\ leds'.cmd = "map"
                  /\ IsLedMap(leds'.map)
                  /\ Lit(leds'.map) = D]_vars

\* ------------------------------------------------------------------------
\* Properties of the calls given a square
\* ------------------------------------------------------------------------
\* a call by the caller thread has just been made
CallMade(op) == caller.op = "none" /\ caller'.op = op

\* C31: square_cords maps every square name of the files a..h and the ranks
\* 1..8 to the zero-based pair (file, rank), a1 to (0, 0) and h8 to (7, 7),
\* distinct squares to distinct pairs (the name is read off the pair); for
\* a file letter outside a..h it raises ValueError and returns nothing, and
\* set_led and set_move_leds given such a square raise with no LED written.
C31_SquareCordsAndInvalidFiles ==
    [][/\ CallMade("square_cords") =>
             IF ValidFile(caller'.arg)
             THEN /\ caller'.exc = ""
                  /\ caller'.res[1] \in 0..7 /\ caller'.res[2] \in 0..7
                  /\ SquareName(Sq(caller'.res[1], caller'.res[2])) = caller'.arg
                  /\ caller'.arg = <<"a", "1">> => caller'.res = <<0, 0>>
                  /\ caller'.arg = <<"h", "8">> => caller'.res = <<7, 7>>
             ELSE caller'.exc = "ValueError" /\ caller'.res = None
       /\ CallMade("set_led") /\ ~ValidFile(caller'.arg) =>
             caller'.exc = "ValueError" /\ leds' = leds
       /\ CallMade("set_move_leds")
             /\ (~ValidFile(SubSeq(caller'.arg, 1, 2))
                    \/ ~ValidFile(SubSeq(caller'.arg, 3, 4))) =>
             caller'.exc = "ValueError" /\ leds' = leds]_vars
\* set_led("i3", True) after opponent_moved("e7e5"): ValueError, and the
\* LEDs of e7 and e5 are lit as before
C31_Witness ==
    /\ caller.op = "set_led" /\ caller.arg = <<"i", "3">>
    /\ caller.exc = "ValueError"
    /\ last_move = E7E5
    /\ leds = LedMap(build_led_map_for_move(E7E5))

\* ------------------------------------------------------------------------
\* Properties of a failed read of the board
\* ------------------------------------------------------------------------
\* get_fen() returned None: check_for_move is left at its first statement
ReadFails == am.pc = "cfm_fen" /\ am'.pc # "cfm_fen" /\ am'.pc # "cfm_pop"

\* C32: a read of the board that fails while await_move polls is not tried
\* again by the manager: check_for_move raises ValueError, await_move ends
\* with that error for its caller and polls no more, and game_board,
\* last_move and the rest of the manager are as before the read.
C32_FailedReadEndsAwaitMove ==
    [][/\ ReadFails =>
             /\ am'.pc = "returned"
             /\ am'.res = Result("ValueError", None)
             /\ UNCHANGED manager_vars
       /\ am.pc = "returned" /\ am.res.kind = "ValueError" =>
             /\ am'.pc \in {"returned", "idle"}
             /\ am'.pc = "returned" => am'.res = am.res]_vars
\* after opponent_moved("e7e5") and set_game_board (1.e4) the first read of
\* await_move fails: the call has ended with ValueError
C32_Witness ==
    /\ am.pc = "returned"
    /\ am.res = Result("ValueError", None)
    /\ am.fen = <<>>
    /\ game_board = AfterE4
    /\ last_move = E7E5

\* ------------------------------------------------------------------------
\* Properties of the stream thread and its state-change workers
\* ------------------------------------------------------------------------
\* the state-change worker is in get_move_from_chessboard, waiting for the
\* move of the local player
WorkerWaitsForMove == hsc.by = "worker" /\ hsc.pc = "wait_move"
\* the stream thread has taken a gameState event and is in the loop that
\* joins the previous worker; nothing in the event or on the manager ends
\* the game, so it stays there for as long as the worker lives
StreamWaitsForWorker ==
    /\ game.pc = "join"
    /\ game.event.winner = "none"
    /\ ~game_over

\* C33: waiting for a local move does not stall the stream: while a
\* state-change worker waits for the move of the local player, the stream
\* thread is not held up behind that worker but goes on taking and
\* dispatching events.
C33_WaitForMoveDoesNotStallTheStream ==
    ~(WorkerWaitsForMove /\ StreamWaitsForWorker)

\* the stream thread starts a state-change worker
WorkerStarts == hsc'.by = "worker" /\ hsc'.pc = "update" /\ hsc' # hsc

\* C34: Game.run starts a new state-change worker only after the previous
\* one has finished, so at most one is alive; and a game end that arrives
\* while the stream thread waits for the previous worker is found by the
\* game-over check of the join loop and ends the session: the thread does
\* not leave the loop to start the new worker and read on.
C34_OneWorkerAndGameOverSeenWhileJoining ==
    [][/\ WorkerStarts => ~WorkerAlive
       /\ game.pc = "join" /\ game_over => ~WorkerStarts /\ game'.pc # "stream"]_vars

\* ------------------------------------------------------------------------
\* Properties of the threads that use the manager
\* ------------------------------------------------------------------------
\* C35: at any time at most one call of await_move is in progress on the
\* manager: the await_move that a get_move_from_chessboard started has
\* ended before a later await_move begins, also when a new game has reset
\* the manager.
C35_OneAwaitMoveAtATime == Alive => ~(old.await /\ AwaitInProgress)

\* a session uses the manager: its stream thread, a state-change worker or
\* an await_move it started is running
SessionRuns == StreamRuns \/ WorkerAlive \/ AwaitInProgress
\* Game.__init__ begins: the manager is reset for a Game
GameIsBuilt == game'.pc = "init" /\ game.pc # "init"

\* C40: at any time at most one Game uses the manager: main() builds no
\* Game, whose __init__ resets the manager, while the stream thread or a
\* worker of a Game it started before is running.
C40_OneSessionAtATime ==
    [][GameIsBuilt => ~SessionRuns]_vars

\* check_for_move has popped the last move of a game_board that had one, and
\* the position it read is the placement before that move
Debounced ==
    /\ am.pc = "cfm_cmp"
    /\ am.board0.stack # <<>>
    /\ am.fen = BoardFen(Pop(am.board0).pl)

\* C36: debounce: when game_board has a move and the reported position is
\* the placement before its last move, check_for_move returns False without
\* move inference (await_move is back at its loop condition), last_move and
\* the LEDs are as they were and game_board, move stack included, is restored.
C36_DebounceReturnsFalse ==
    /\ [][(Debounced /\ am' # am)
          => /\ am'.pc = "am_while"
             /\ am'.res = NoResult
             /\ game_board' = am.board0
             /\ last_move' = am.lm0
             /\ last_move' = last_move
             /\ leds' = leds]_vars
    /\ [][(am.pc \in {"cfm_fen", "cfm_pop"} /\ am' # am)
          => (last_move' = last_move /\ leds' = leds)]_vars
\* the call read the position before the last move and has returned False:
\* the move is back on the stack
C36_Witness ==
    /\ Alive /\ am.pc = "am_while"
    /\ am.called
    /\ game_board.stack # <<>>
    /\ game_board = am.board0
    /\ am.fen = BoardFen(Pop(game_board).pl)
    /\ last_move = am.lm0

\* ------------------------------------------------------------------------
\* Properties of leds
\* ------------------------------------------------------------------------
\* leds has written a frame
LedsWritten == bt # BtNone /\ "led" \in DOMAIN bt
\* the bit of weight 128 >> f of a byte
BitOfFile(byte, f) == (byte \div (2 ^ (7 - f))) % 2

\* C37: leds(data) writes ten bytes: 0x0A, 0x08, then one byte per rank
\* from rank 8 to rank 1 in which the bit of weight 128 >> f is 1 exactly
\* when the square of file f of that rank is occupied in the snapshot; a
\* snapshot without pieces gives eight zero bytes.
C37_LedFrameShowsOccupiedSquares ==
    LedsWritten =>
        /\ Len(bt.led) = 10
        /\ bt.led[1] = 10 /\ bt.led[2] = 8
        /\ \A r \in 0..7 : \A f \in 0..7 :
              BitOfFile(bt.led[3 + (7 - r)], f) = 1
                  <=> NibbleAt(bt.data, f, r) # 0
        /\ (\A j \in 1..32 : bt.data[j] = 0)
              => \A i \in 3..10 : bt.led[i] = 0

\* ------------------------------------------------------------------------
\* Properties of is_game_over
\* ------------------------------------------------------------------------
\* is_game_over has returned
VerdictGiven == caller.op = "is_game_over" /\ "res" \in DOMAIN caller
\* the board is drawn by one of the four rules
DrawnBoard(b) ==
    \/ is_stalemate(b)
    \/ IsInsufficientMaterial(b.pl)
    \/ Occurrences(b, b.pl, b.turn) >= Fivefold
    \/ HalfmoveClock(b) >= SeventyFiveMoves

\* C38: is_game_over reports a checkmate as over, with the reason
\* 'checkmate' and as winner the side that is not to move; stalemate,
\* insufficient material, fivefold repetition and the 75-move rule as over
\* with no winner (False); for every other position it returns False; and
\* game_board is as it was.
C38_VerdictOfIsGameOver ==
    VerdictGiven =>
        LET b == caller.saw
            r == caller.res
        IN  /\ is_checkmate(b)
                => (r.over /\ r.reason = "checkmate" /\ r.winner = ~b.turn)
            /\ (~is_checkmate(b) /\ DrawnBoard(b))
                => (r.over /\ r.winner = FALSE /\ r.reason # "checkmate")
            /\ (~is_checkmate(b) /\ ~DrawnBoard(b)) => r = NotOver
            /\ game_board = b

\* ------------------------------------------------------------------------
\* Properties of the waits for a local move
\* ------------------------------------------------------------------------
\* a move is submitted to the server
Submitted == lichess'.moves # lichess.moves

\* C39: a wait for a local move ends once the game is over: with game_over
\* set, make_first_move does not go on waiting when its await_move has
\* returned, get_move_from_chessboard leaves its loop without a move, and
\* no move is submitted.
C39_WaitsEndWhenGameIsOver ==
    /\ [][(MainFirstMove /\ game_over) => main'.pc # "first_move"]_vars
    /\ [][(HscWaitMove /\ game_over)
          => hsc'.pc \notin {"wait_move", "make_move"}]_vars
    /\ [][Submitted => ~game_over]_vars

====
